---------------------------- MODULE Spec2Model ----------------------------
(***************************************************************************)
(* State-machine model of the awakening enhancement simulator:             *)
(*   - AwakeningSimulator (src/src/simulator.py): attempt_enhancement and  *)
(*     the simulate_to_target run driver;                                  *)
(*   - AwakeningEngine (src/src/item_types/awakening/engine.py): step(),   *)
(*     _perform_enhancement_step, _perform_hepta_okta_step and the         *)
(*     run_fast() loop.                                                    *)
(*                                                                         *)
(* Probabilities are fixed-point numbers with RATE_ONE = 1.0, so that      *)
(* 0.005 is 50 and 0.70 is 7000.  A random draw rng.random() in [0,1) is a *)
(* value of Rolls (0 .. RATE_ONE-1).  Valks multipliers are percentages    *)
(* (1.10 is 110).  Python's None is the string "None".  A Python dict is a *)
(* function whose DOMAIN is the set of keys present.                       *)
(***************************************************************************)
EXTENDS Integers, Sequences, FiniteSets, TLC

(***************************************************************************)
(* Bounds of the model.                                                    *)
(***************************************************************************)
\* largest safety bound (max_attempts) handed to simulate_to_target, and
\* cap on the number of step() calls / run_fast() iterations explored
MaxAttempts == 4
\* largest distance target_level - start_level of an explored run
MaxSpan == 2
\* cap on the number of step() calls explored along a Hepta/Okta path
MaxSubAttempts == 181

(***************************************************************************)
(* Configuration tables (src/src/config.py, src/src/market_config.py).     *)
(***************************************************************************)
RATE_ONE == 10000

Levels == 1..10

AWAKENING_ENHANCEMENT_RATES ==
    [l \in Levels |->
        CASE l = 1 -> 7000 [] l = 2 -> 6000 [] l = 3 -> 4000 [] l = 4 -> 2000
          [] l = 5 -> 1000 [] l = 6 -> 700  [] l = 7 -> 500  [] l = 8 -> 300
          [] l = 9 -> 100  [] l = 10 -> 50]

ANVIL_THRESHOLDS_AWAKENING ==
    [l \in Levels |->
        CASE l = 1 -> 0  [] l = 2 -> 0  [] l = 3 -> 2  [] l = 4 -> 3
          [] l = 5 -> 5  [] l = 6 -> 8  [] l = 7 -> 10 [] l = 8 -> 17
          [] l = 9 -> 50 [] l = 10 -> 100]

AWAKENING_MATERIAL_COSTS == [l \in Levels |-> 1]

RESTORATION_SCROLL_COSTS == [l \in Levels |-> 200]

RESTORATION_SUCCESS_RATE == 5000

HEPTA_OKTA_SUCCESS_RATE == 600

VALKS_MULTIPLIER_10 == 110

VALKS_MULTIPLIER_50 == 150

VALKS_MULTIPLIER_100 == 200

\* the unit in which the multipliers are written: 110 is 1.10
PERCENT == 100

\* .get(level, 0.01) of an unknown tier's base rate
DEFAULT_RATE == 100

\* .get(level, 999) of an unknown tier's pity threshold
DEFAULT_THRESHOLD == 999

RESTORATION_PER_ATTEMPT == 200

RESTORATION_MARKET_BUNDLE_SIZE == 200000

HEPTA_SUB_ENHANCEMENTS == 5

OKTA_SUB_ENHANCEMENTS == 10

HEPTA_OKTA_ANVIL_PITY == 17

HEPTA_OKTA_CRYSTALS_PER_ATTEMPT == 15

(***************************************************************************)
(* Python dict helpers.                                                    *)
(***************************************************************************)
EmptyDict == [k \in {} |-> 0]

\* d.get(k, default)
DictGet(d, k, default) == IF k \in DOMAIN d THEN d[k] ELSE default

\* d[k] = v
DictSet(d, k, v) == [x \in DOMAIN d \cup {k} |-> IF x = k THEN v ELSE d[x]]

\* min(a, b)
Min(a, b) == IF a <= b THEN a ELSE b

\* values rng.random() is drawn from: the smallest draw (below every rate),
\* 0.5 (not below the recovery rate, below the rates of tiers 1 and 2) and
\* the largest draw (below a rate of 1.0 only)
Rolls == {0, 5000, RATE_ONE - 1}


(***************************************************************************)
(* Market prices (src/src/market_config.py).  Silver amounts are written   *)
(* in units of 1,000,000 silver: every price of MARKET_PRICES is a         *)
(* multiple of it (5,000,000,000 per restoration scroll is 5000).          *)
(***************************************************************************)
MARKET_PRICES ==
    [m \in {"black_stone_weapon", "black_stone_armor", "black_crystal",
            "pristine_black_crystal", "restoration_scroll", "valks_advice_10",
            "valks_advice_50", "valks_advice_100", "arkram_prophecy",
            "w_blessing", "ogier_blessing_basic", "ogier_blessing_blooming",
            "ogier_blessing_saving", "breakthrough_restoration"} |->
        IF m = "restoration_scroll" THEN 5000 ELSE 0]

CRAFTING_RECIPES ==
    [i \in {"pristine_black_crystal"} |->
        [m \in {"black_stone_weapon", "black_stone_armor", "black_crystal"} |->
            IF m = "black_crystal" THEN 5 ELSE 10]]

\* sum of the values of a dict
RECURSIVE SumDict(_)
SumDict(d) ==
    IF DOMAIN d = {} THEN 0
    ELSE LET k == CHOOSE x \in DOMAIN d : TRUE
         IN  d[k] + SumDict([x \in DOMAIN d \ {k} |-> d[x]])

calculate_crafting_cost(item) ==
    IF item \notin DOMAIN CRAFTING_RECIPES
    THEN DictGet(MARKET_PRICES, item, 0)
    ELSE LET recipe == CRAFTING_RECIPES[item]
         IN  SumDict([material \in DOMAIN recipe |->
                         DictGet(MARKET_PRICES, material, 0) * recipe[material]])

\* get_effective_price(item), prefer_craft = True
get_effective_price(item) ==
    LET market_price == DictGet(MARKET_PRICES, item, 0)
        craft_cost   == calculate_crafting_cost(item)
    IN  IF craft_cost > 0
        THEN (IF market_price > 0 THEN Min(market_price, craft_cost) ELSE craft_cost)
        ELSE market_price

(***************************************************************************)
(* AwakeningSimulator (src/src/simulator.py).                              *)
(***************************************************************************)
RestorationStrategy == {"never", "always", "above_threshold", "cost_efficient"}

ValksStrategy == {"never", "small_only", "large_only", "large_high", "optimal"}

\* GearState.get_energy
get_energy(gear, target_level) == DictGet(gear.anvil_energy, target_level, 0)

\* mutant of add_energy: the energy is set to 1 instead of incremented
add_energy_overwrites(gear, target_level) ==
    [gear EXCEPT !.anvil_energy = DictSet(gear.anvil_energy, target_level, 1)]

\* GearState.add_energy
add_energy(gear, target_level) ==
    [gear EXCEPT !.anvil_energy =
        DictSet(gear.anvil_energy, target_level, get_energy(gear, target_level) + 1)]

\* GearState.reset_energy
reset_energy(gear, target_level) ==
    [gear EXCEPT !.anvil_energy = DictSet(gear.anvil_energy, target_level, 0)]

\* GearState.copy
copy(gear) ==
    [awakening_level |-> gear.awakening_level, anvil_energy |-> gear.anvil_energy]

\* AwakeningSimulator._get_success_rate
_get_success_rate(target_level, valks) ==
    LET base_rate == DictGet(AWAKENING_ENHANCEMENT_RATES, target_level, DEFAULT_RATE)
    IN  IF valks = "small" \/ valks = "10"
        THEN Min(RATE_ONE, (base_rate * VALKS_MULTIPLIER_10) \div PERCENT)
        ELSE IF valks = "large" \/ valks = "50"
        THEN Min(RATE_ONE, (base_rate * VALKS_MULTIPLIER_50) \div PERCENT)
        ELSE IF valks = "100"
        THEN Min(RATE_ONE, (base_rate * VALKS_MULTIPLIER_100) \div PERCENT)
        ELSE base_rate

\* AwakeningSimulator._should_use_restoration
_should_use_restoration(current_level, strategy) ==
    IF strategy.restoration = "never" THEN FALSE
    ELSE IF strategy.restoration = "always" THEN TRUE
    ELSE IF strategy.restoration = "above_threshold"
    THEN current_level >= strategy.restoration_threshold
    ELSE current_level >= 4

\* AwakeningSimulator._get_valks_type
_get_valks_type(target_level, strategy) ==
    IF strategy.valks = "never" THEN "None"
    ELSE IF strategy.valks = "small_only" THEN "small"
    ELSE IF strategy.valks = "large_only" THEN "large"
    ELSE IF strategy.valks = "large_high"
    THEN (IF target_level >= strategy.valks_large_threshold THEN "large" ELSE "None")
    ELSE IF target_level >= 7 THEN "large"
    ELSE IF target_level >= 4 THEN "small"
    ELSE "None"

\* the pity check of attempt_enhancement: anvil_triggered
sim_anvil_triggered(current_energy, max_energy) == current_energy >= max_energy

\* the materials dict attempt_enhancement builds before the roll
sim_materials(target_level, valks_type) ==
    LET base == DictSet(EmptyDict, "pristine_black_crystal",
                        DictGet(AWAKENING_MATERIAL_COSTS, target_level, 1))
    IN  IF valks_type = "small" THEN DictSet(base, "valks_advice_10", 1)
        ELSE IF valks_type = "large" THEN DictSet(base, "valks_advice_50", 1)
        ELSE base

\* AttemptResult(...)
AttemptResult(success, starting_level, ending_level, anvil_triggered, restoration_attempted, restoration_success, valks_used, materials_cost) ==
    [success |-> success, starting_level |-> starting_level,
     ending_level |-> ending_level, anvil_triggered |-> anvil_triggered,
     restoration_attempted |-> restoration_attempted,
     restoration_success |-> restoration_success, valks_used |-> valks_used,
     materials_cost |-> materials_cost]

\* the failure branch of attempt_enhancement: energy, recovery, downgrade
sim_failure(gear, strategy, target_level, valks_type, materials, roll, restoration_roll) ==
    LET failed == add_energy(gear, target_level)
        level  == gear.awakening_level
        use_restoration == level > 0 /\ _should_use_restoration(level, strategy)
        restoration_success ==
            use_restoration /\ restoration_roll < RESTORATION_SUCCESS_RATE
        cost == IF use_restoration
                THEN DictSet(materials, "restoration_scroll",
                             DictGet(RESTORATION_SCROLL_COSTS, level, 1))
                ELSE materials
        ending_level ==
            IF level > 0 /\ ~restoration_success THEN level - 1 ELSE level
    IN  [gear   |-> [failed EXCEPT !.awakening_level = ending_level],
         result |-> AttemptResult(FALSE, level, ending_level, FALSE,
                                  use_restoration, restoration_success,
                                  valks_type, cost),
         draws  |-> IF use_restoration THEN <<roll, restoration_roll>>
                    ELSE <<roll>>]

\* AwakeningSimulator.attempt_enhancement: the check that raises ValueError
\* ("Already at max awakening level (X)") before anything else is done
at_max_level(gear) == gear.awakening_level + 1 > 10

\* AwakeningSimulator.attempt_enhancement for target_level <= 10; roll and
\* restoration_roll are the values the two rng.random() calls would return
attempt_enhancement(gear, strategy, roll, restoration_roll) ==
    LET target_level   == gear.awakening_level + 1
        valks_type     == _get_valks_type(target_level, strategy)
        success_rate   == _get_success_rate(target_level, valks_type)
        current_energy == get_energy(gear, target_level)
        max_energy     == DictGet(ANVIL_THRESHOLDS_AWAKENING, target_level,
                                  DEFAULT_THRESHOLD)
        anvil_triggered == sim_anvil_triggered(current_energy, max_energy)
        materials      == sim_materials(target_level, valks_type)
        starting_level == gear.awakening_level
        succeeded ==
            [reset_energy(gear, target_level) EXCEPT !.awakening_level = target_level]
    IN  IF anvil_triggered
        THEN [gear   |-> succeeded,
              result |-> AttemptResult(TRUE, starting_level, target_level, TRUE,
                                       FALSE, FALSE, valks_type, materials),
              draws  |-> <<>>]
        ELSE IF roll < success_rate
        THEN [gear   |-> succeeded,
              result |-> AttemptResult(TRUE, starting_level, target_level, FALSE,
                                       FALSE, FALSE, valks_type, materials),
              draws  |-> <<roll>>]
        ELSE sim_failure(gear, strategy, target_level, valks_type, materials,
                         roll, restoration_roll)

(***************************************************************************)
(* AwakeningEngine (src/src/item_types/awakening/engine.py).  An engine is *)
(* a record `self` of its attributes; the values __init__ caches from the  *)
(* config (_target_level, _restoration_from, ...) are read from            *)
(* self.config, which no code changes after construction.                  *)
(***************************************************************************)
EXQUISITE_BLACK_CRYSTAL_RECIPE ==
    [m \in {"restoration_scrolls", "valks_100", "pristine_black_crystal"} |->
        CASE m = "restoration_scrolls" -> 1050
          [] m = "valks_100" -> 2
          [] m = "pristine_black_crystal" -> 30]

\* MarketPrices.restoration_attempt_cost
restoration_attempt_cost(prices) ==
    IF prices.restoration_bundle_price = 0 THEN 0
    ELSE (RESTORATION_PER_ATTEMPT * prices.restoration_bundle_price)
             \div RESTORATION_MARKET_BUNDLE_SIZE

\* self._exquisite_cost, computed by __init__
_exquisite_cost(prices) ==
    (EXQUISITE_BLACK_CRYSTAL_RECIPE["restoration_scrolls"]
         * prices.restoration_bundle_price) \div RESTORATION_MARKET_BUNDLE_SIZE
    + EXQUISITE_BLACK_CRYSTAL_RECIPE["valks_100"] * prices.valks_100_price
    + EXQUISITE_BLACK_CRYSTAL_RECIPE["pristine_black_crystal"] * prices.crystal_price

_RATE_CACHE ==
    [level \in Levels |-> DictGet(AWAKENING_ENHANCEMENT_RATES, level, DEFAULT_RATE)]

_ANVIL_CACHE ==
    [level \in Levels |-> DictGet(ANVIL_THRESHOLDS_AWAKENING, level, DEFAULT_THRESHOLD)]

_RATE_CACHE_VALKS_10 ==
    [level \in Levels |->
        Min(RATE_ONE, (_RATE_CACHE[level] * VALKS_MULTIPLIER_10) \div PERCENT)]

_RATE_CACHE_VALKS_50 ==
    [level \in Levels |->
        Min(RATE_ONE, (_RATE_CACHE[level] * VALKS_MULTIPLIER_50) \div PERCENT)]

\* mutant of _RATE_CACHE_VALKS_100: the rate is not clamped to 1.0
_RATE_CACHE_VALKS_100_unclamped ==
    [level \in Levels |-> (_RATE_CACHE[level] * VALKS_MULTIPLIER_100) \div PERCENT]

_RATE_CACHE_VALKS_100 ==
    [level \in Levels |->
        Min(RATE_ONE, (_RATE_CACHE[level] * VALKS_MULTIPLIER_100) \div PERCENT)]

\* AwakeningEngine.reset, after __init__ stored the config
reset(config) ==
    [config |-> config,
     level |-> config.start_level,
     anvil_energy |-> EmptyDict,
     crystals |-> 0, scrolls |-> 0, silver |-> 0, exquisite_crystals |-> 0,
     valks_10_used |-> 0, valks_50_used |-> 0, valks_100_used |-> 0,
     attempts |-> 0,
     hepta_progress |-> config.start_hepta,
     okta_progress |-> config.start_okta,
     hepta_pity |-> 0, okta_pity |-> 0]

is_complete_strict(self) == self.level > self.config.target_level

\* mutant of is_complete: complete one tier below the target
is_complete_one_below(self) == self.level >= self.config.target_level - 1

\* AwakeningEngine.is_complete
is_complete(self) == self.level >= self.config.target_level

\* mutant of _get_valks_for_level: the smallest multiplier has priority
_get_valks_for_level_lowest_first(self, target_level) ==
    IF self.config.valks_10_from > 0 /\ target_level >= self.config.valks_10_from
    THEN "10"
    ELSE IF self.config.valks_50_from > 0 /\ target_level >= self.config.valks_50_from
    THEN "50"
    ELSE IF self.config.valks_100_from > 0 /\ target_level >= self.config.valks_100_from
    THEN "100"
    ELSE "None"

\* AwakeningEngine._get_valks_for_level
_get_valks_for_level(self, target_level) ==
    IF self.config.valks_100_from > 0 /\ target_level >= self.config.valks_100_from
    THEN "100"
    ELSE IF self.config.valks_50_from > 0 /\ target_level >= self.config.valks_50_from
    THEN "50"
    ELSE IF self.config.valks_10_from > 0 /\ target_level >= self.config.valks_10_from
    THEN "10"
    ELSE "None"

\* AwakeningEngine._should_use_restoration (the engine's recovery policy)
engine_should_use_restoration(self) ==
    self.config.restoration_from > 0 /\ self.level >= self.config.restoration_from

\* mutant of _should_use_hepta: partial progress does not keep the path
_should_use_hepta_flag_only(self) ==
    /\ self.config.use_hepta
    /\ self.level = 7
    /\ self.hepta_progress < HEPTA_SUB_ENHANCEMENTS

\* AwakeningEngine._should_use_hepta
_should_use_hepta(self) ==
    /\ (self.config.use_hepta \/ self.hepta_progress > 0)
    /\ self.level = 7
    /\ self.hepta_progress < HEPTA_SUB_ENHANCEMENTS

\* mutant of _should_use_okta: the entry tier is not checked
_should_use_okta_any_tier(self) ==
    /\ (self.config.use_okta \/ self.okta_progress > 0)
    /\ self.okta_progress < OKTA_SUB_ENHANCEMENTS

\* AwakeningEngine._should_use_okta
_should_use_okta(self) ==
    /\ (self.config.use_okta \/ self.okta_progress > 0)
    /\ self.level = 8
    /\ self.okta_progress < OKTA_SUB_ENHANCEMENTS

\* StepResult(...) of a normal attempt
StepResult(success, anvil_triggered, starting_level, ending_level, valks_used, restoration_attempted, restoration_success) ==
    [success |-> success, anvil_triggered |-> anvil_triggered,
     starting_level |-> starting_level, ending_level |-> ending_level,
     valks_used |-> valks_used,
     restoration_attempted |-> restoration_attempted,
     restoration_success |-> restoration_success,
     is_hepta_okta |-> FALSE, sub_progress |-> 0, sub_pity |-> 0,
     path_complete |-> FALSE, path_name |-> ""]

\* StepResult(...) of a Hepta/Okta sub-attempt
SubStepResult(success, anvil_triggered, starting_level, ending_level, sub_progress, sub_pity, path_complete, path_name) ==
    [success |-> success, anvil_triggered |-> anvil_triggered,
     starting_level |-> starting_level, ending_level |-> ending_level,
     valks_used |-> "None",
     restoration_attempted |-> FALSE, restoration_success |-> FALSE,
     is_hepta_okta |-> TRUE, sub_progress |-> sub_progress, sub_pity |-> sub_pity,
     path_complete |-> path_complete, path_name |-> path_name]

\* mutant of sub_anvil_triggered: the guarantee comes one failure too late
sub_anvil_triggered_late(current_pity) == current_pity > HEPTA_OKTA_ANVIL_PITY

\* the sub-pity check of _perform_hepta_okta_step
sub_anvil_triggered(current_pity) == current_pity >= HEPTA_OKTA_ANVIL_PITY

\* mutant of sub_path_complete: the path completes one success too late
sub_path_complete_late(new_progress, max_progress) == new_progress > max_progress

\* the completion check of _perform_hepta_okta_step
sub_path_complete(new_progress, max_progress) == new_progress >= max_progress

\* AwakeningEngine._perform_hepta_okta_step
_perform_hepta_okta_step(self, is_okta, roll) ==
    LET path_name        == IF is_okta THEN "Okta" ELSE "Hepta"
        current_progress == IF is_okta THEN self.okta_progress ELSE self.hepta_progress
        current_pity     == IF is_okta THEN self.okta_pity ELSE self.hepta_pity
        max_progress     == IF is_okta THEN OKTA_SUB_ENHANCEMENTS
                            ELSE HEPTA_SUB_ENHANCEMENTS
        paid == [self EXCEPT
                    !.exquisite_crystals = @ + HEPTA_OKTA_CRYSTALS_PER_ATTEMPT,
                    !.silver = @ + _exquisite_cost(self.config.prices)
                                       * HEPTA_OKTA_CRYSTALS_PER_ATTEMPT,
                    !.attempts = @ + 1]
        anvil_triggered == sub_anvil_triggered(current_pity)
        new_progress    == current_progress + 1
        path_complete   == sub_path_complete(new_progress, max_progress)
        target_level    == IF is_okta THEN 9 ELSE 8
        advanced ==
            IF is_okta
            THEN [paid EXCEPT !.okta_progress = new_progress, !.okta_pity = 0]
            ELSE [paid EXCEPT !.hepta_progress = new_progress, !.hepta_pity = 0]
        completed ==
            IF is_okta
            THEN [advanced EXCEPT !.level = target_level,
                      !.anvil_energy = DictSet(@, target_level, 0),
                      !.okta_progress = 0, !.okta_pity = 0]
            ELSE [advanced EXCEPT !.level = target_level,
                      !.anvil_energy = DictSet(@, target_level, 0),
                      !.hepta_progress = 0, !.hepta_pity = 0]
        after  == IF path_complete THEN completed ELSE advanced
        failed == IF is_okta THEN [paid EXCEPT !.okta_pity = @ + 1]
                  ELSE [paid EXCEPT !.hepta_pity = @ + 1]
    IN  IF anvil_triggered \/ roll < HEPTA_OKTA_SUCCESS_RATE
        THEN [self   |-> after,
              result |-> SubStepResult(TRUE, anvil_triggered,
                             IF ~path_complete THEN after.level
                             ELSE (IF is_okta THEN 8 ELSE 7),
                             after.level,
                             IF ~path_complete THEN new_progress ELSE 0,
                             0, path_complete, path_name),
              draws  |-> IF anvil_triggered THEN <<>> ELSE <<roll>>]
        ELSE [self   |-> failed,
              result |-> SubStepResult(FALSE, FALSE, failed.level, failed.level,
                             current_progress,
                             IF is_okta THEN failed.okta_pity ELSE failed.hepta_pity,
                             FALSE, path_name),
              draws  |-> <<roll>>]

\* the Valks choice of _perform_enhancement_step: type and rate
step_valks(self, target_level) ==
    IF self.config.valks_100_from > 0 /\ target_level >= self.config.valks_100_from
    THEN [valks_type |-> "100",
          base_rate  |-> DictGet(_RATE_CACHE_VALKS_100, target_level, DEFAULT_RATE)]
    ELSE IF self.config.valks_50_from > 0 /\ target_level >= self.config.valks_50_from
    THEN [valks_type |-> "50",
          base_rate  |-> DictGet(_RATE_CACHE_VALKS_50, target_level, DEFAULT_RATE)]
    ELSE IF self.config.valks_10_from > 0 /\ target_level >= self.config.valks_10_from
    THEN [valks_type |-> "10",
          base_rate  |-> DictGet(_RATE_CACHE_VALKS_10, target_level, DEFAULT_RATE)]
    ELSE [valks_type |-> "None",
          base_rate  |-> DictGet(_RATE_CACHE, target_level, DEFAULT_RATE)]

\* mutant of step_anvil_triggered: the threshold-0 guard is missing
step_anvil_triggered_unguarded(current_energy, max_energy) ==
    current_energy >= max_energy

\* the pity check of _perform_enhancement_step: anvil_triggered
step_anvil_triggered(current_energy, max_energy) ==
    current_energy >= max_energy /\ max_energy > 0

\* mutant of step_resources: a "50" Valks is also counted as a "10" Valks
step_resources_double_valks(self, valks_type) ==
    LET prices == self.config.prices
        paid   == [self EXCEPT !.attempts = @ + 1, !.crystals = @ + 1,
                                !.silver = @ + prices.crystal_price]
    IN  IF valks_type = "10" \/ valks_type = "50"
        THEN [paid EXCEPT !.valks_10_used = @ + 1,
                          !.valks_50_used = IF valks_type = "50" THEN @ + 1 ELSE @,
                          !.silver = @ + prices.valks_10_price]
        ELSE IF valks_type = "100"
        THEN [paid EXCEPT !.valks_100_used = @ + 1,
                          !.silver = @ + prices.valks_100_price]
        ELSE paid

step_resources_unpriced_valks(self, valks_type) ==
    LET paid == [self EXCEPT !.attempts = @ + 1, !.crystals = @ + 1,
                             !.silver = @ + self.config.prices.crystal_price]
    IN  IF valks_type = "10" THEN [paid EXCEPT !.valks_10_used = @ + 1]
        ELSE IF valks_type = "50" THEN [paid EXCEPT !.valks_50_used = @ + 1]
        ELSE IF valks_type = "100" THEN [paid EXCEPT !.valks_100_used = @ + 1]
        ELSE paid

\* mutant of step_resources: the normal attempt is not counted in attempts
step_resources_attempt_uncounted(self, valks_type) ==
    LET prices == self.config.prices
        paid   == [self EXCEPT !.crystals = @ + 1,
                                !.silver = @ + prices.crystal_price]
    IN  IF valks_type = "10"
        THEN [paid EXCEPT !.valks_10_used = @ + 1,
                          !.silver = @ + prices.valks_10_price]
        ELSE IF valks_type = "50"
        THEN [paid EXCEPT !.valks_50_used = @ + 1,
                          !.silver = @ + prices.valks_50_price]
        ELSE IF valks_type = "100"
        THEN [paid EXCEPT !.valks_100_used = @ + 1,
                          !.silver = @ + prices.valks_100_price]
        ELSE paid

\* the resource tracking of _perform_enhancement_step
step_resources(self, valks_type) ==
    LET prices == self.config.prices
        paid   == [self EXCEPT !.attempts = @ + 1, !.crystals = @ + 1,
                                !.silver = @ + prices.crystal_price]
    IN  IF valks_type = "10"
        THEN [paid EXCEPT !.valks_10_used = @ + 1,
                          !.silver = @ + prices.valks_10_price]
        ELSE IF valks_type = "50"
        THEN [paid EXCEPT !.valks_50_used = @ + 1,
                          !.silver = @ + prices.valks_50_price]
        ELSE IF valks_type = "100"
        THEN [paid EXCEPT !.valks_100_used = @ + 1,
                          !.silver = @ + prices.valks_100_price]
        ELSE paid

\* a recovery that is attempted after every failure, also at tier 0
step_use_restoration_any_tier(level, restoration_from) ==
    restoration_from > 0

\* whether the failure branch of _perform_enhancement_step attempts recovery
step_use_restoration(level, restoration_from) ==
    level > 0 /\ restoration_from > 0 /\ level >= restoration_from

\* mutant of step_restoration_success: a draw equal to the rate succeeds
step_restoration_success_inclusive(restoration_roll) ==
    restoration_roll <= RESTORATION_SUCCESS_RATE

\* the recovery draw of _perform_enhancement_step
step_restoration_success(restoration_roll) ==
    restoration_roll < RESTORATION_SUCCESS_RATE

\* mutant of step_ending_level: the downgrade does not stop at tier 0
step_ending_level_unfloored(level, restoration_attempted, restoration_success) ==
    IF restoration_attempted /\ restoration_success THEN level ELSE level - 1

\* the tier a failed attempt of _perform_enhancement_step ends at
step_ending_level(level, restoration_attempted, restoration_success) ==
    IF restoration_attempted
    THEN (IF restoration_success THEN level ELSE level - 1)
    ELSE (IF level > 0 THEN level - 1 ELSE level)

\* the failure branch of _perform_enhancement_step
step_failure(paid, level, target_level, current_energy, valks_type, roll, restoration_roll) ==
    LET restoration_attempted ==
            step_use_restoration(level, paid.config.restoration_from)
        restoration_success ==
            restoration_attempted /\ step_restoration_success(restoration_roll)
        ending_level ==
            step_ending_level(level, restoration_attempted, restoration_success)
        energised ==
            [paid EXCEPT !.anvil_energy = DictSet(@, target_level, current_energy + 1)]
        charged ==
            IF restoration_attempted
            THEN [energised EXCEPT
                     !.scrolls = @ + RESTORATION_PER_ATTEMPT,
                     !.silver = @ + restoration_attempt_cost(paid.config.prices)]
            ELSE energised
    IN  [self   |-> [charged EXCEPT !.level = ending_level],
         result |-> StepResult(FALSE, FALSE, level, ending_level, valks_type,
                               restoration_attempted, restoration_success),
         draws  |-> IF restoration_attempted THEN <<roll, restoration_roll>>
                    ELSE <<roll>>]

\* AwakeningEngine._perform_enhancement_step
_perform_enhancement_step(self, roll, restoration_roll) ==
    LET level          == self.level
        target_level   == level + 1
        valks          == step_valks(self, target_level)
        current_energy == DictGet(self.anvil_energy, target_level, 0)
        max_energy     == DictGet(_ANVIL_CACHE, target_level, DEFAULT_THRESHOLD)
        anvil_triggered == step_anvil_triggered(current_energy, max_energy)
        paid           == step_resources(self, valks.valks_type)
    IN  IF anvil_triggered \/ roll < valks.base_rate
        THEN [self   |-> [paid EXCEPT !.level = target_level,
                              !.anvil_energy = DictSet(@, target_level, 0)],
              result |-> StepResult(TRUE, anvil_triggered, level, target_level,
                                    valks.valks_type, FALSE, FALSE),
              draws  |-> IF anvil_triggered THEN <<>> ELSE <<roll>>]
        ELSE step_failure(paid, level, target_level, current_energy,
                          valks.valks_type, roll, restoration_roll)

\* mutant of step: a failed sub-attempt is followed by the downgrade of a
\* failed normal attempt
step_sub_failure_downgrades(self, roll, restoration_roll) ==
    LET is_okta == ~_should_use_hepta(self)
        out     == _perform_hepta_okta_step(self, is_okta, roll)
    IN  IF _should_use_hepta(self) \/ _should_use_okta(self)
        THEN (IF out.result.success THEN out
              ELSE [out EXCEPT !.self.level = @ - 1])
        ELSE _perform_enhancement_step(self, roll, restoration_roll)

\* AwakeningEngine.step, when not is_complete()
step(self, roll, restoration_roll) ==
    IF _should_use_hepta(self) THEN _perform_hepta_okta_step(self, FALSE, roll)
    ELSE IF _should_use_okta(self) THEN _perform_hepta_okta_step(self, TRUE, roll)
    ELSE _perform_enhancement_step(self, roll, restoration_roll)

\* the Valks choice of run_fast: rate and price charged
fast_valks(self, next_level) ==
    IF self.config.valks_100_from > 0 /\ next_level >= self.config.valks_100_from
    THEN [base_rate |-> DictGet(_RATE_CACHE_VALKS_100, next_level, DEFAULT_RATE),
          price     |-> self.config.prices.valks_100_price]
    ELSE IF self.config.valks_50_from > 0 /\ next_level >= self.config.valks_50_from
    THEN [base_rate |-> DictGet(_RATE_CACHE_VALKS_50, next_level, DEFAULT_RATE),
          price     |-> self.config.prices.valks_50_price]
    ELSE IF self.config.valks_10_from > 0 /\ next_level >= self.config.valks_10_from
    THEN [base_rate |-> DictGet(_RATE_CACHE_VALKS_10, next_level, DEFAULT_RATE),
          price     |-> self.config.prices.valks_10_price]
    ELSE [base_rate |-> DictGet(_RATE_CACHE, next_level, DEFAULT_RATE),
          price     |-> 0]

\* mutant of fast_anvil_triggered: the attempt is forced one failure late
fast_anvil_triggered_late(current_energy, max_energy) ==
    current_energy > max_energy /\ max_energy > 0

\* the pity check of run_fast: anvil_triggered
fast_anvil_triggered(current_energy, max_energy) ==
    current_energy >= max_energy /\ max_energy > 0

\* locals of run_fast that forget the Hepta/Okta progress of the engine
run_fast_locals_no_progress(self) ==
    [level |-> self.level,
     crystals |-> 0, scrolls |-> 0, silver |-> 0, exquisite_crystals |-> 0,
     hepta_progress |-> 0,
     okta_progress |-> 0,
     hepta_pity |-> 0, okta_pity |-> 0,
     anvil_triggered |-> FALSE,
     branch |-> "none"]

\* the local variables of run_fast when its loop is entered; branch is the
\* branch of the loop body taken by the last iteration
run_fast_locals(self) ==
    [level |-> self.level,
     crystals |-> 0, scrolls |-> 0, silver |-> 0, exquisite_crystals |-> 0,
     hepta_progress |-> self.hepta_progress,
     okta_progress |-> self.okta_progress,
     hepta_pity |-> 0, okta_pity |-> 0,
     anvil_triggered |-> FALSE,
     branch |-> "none"]

\* the Hepta condition of the run_fast loop
fast_use_hepta(self, locals) ==
    /\ (self.config.use_hepta \/ locals.hepta_progress > 0)
    /\ locals.level = 7
    /\ locals.hepta_progress < HEPTA_SUB_ENHANCEMENTS

\* the Okta condition of the run_fast loop
fast_use_okta(self, locals) ==
    /\ (self.config.use_okta \/ locals.okta_progress > 0)
    /\ locals.level = 8
    /\ locals.okta_progress < OKTA_SUB_ENHANCEMENTS

\* the Hepta branch of the run_fast loop
fast_hepta(self, locals, roll) ==
    LET paid == [locals EXCEPT
                    !.exquisite_crystals = @ + HEPTA_OKTA_CRYSTALS_PER_ATTEMPT,
                    !.silver = @ + _exquisite_cost(self.config.prices)
                                       * HEPTA_OKTA_CRYSTALS_PER_ATTEMPT,
                    !.branch = "hepta"]
        forced == locals.hepta_pity >= HEPTA_OKTA_ANVIL_PITY
        done   == locals.hepta_progress + 1 >= HEPTA_SUB_ENHANCEMENTS
    IN  IF forced \/ roll < HEPTA_OKTA_SUCCESS_RATE
        THEN [self   |-> IF done
                         THEN [self EXCEPT !.anvil_energy = DictSet(@, 8, 0)]
                         ELSE self,
              locals |-> IF done
                         THEN [paid EXCEPT !.hepta_progress = 0, !.hepta_pity = 0,
                                           !.level = 8]
                         ELSE [paid EXCEPT !.hepta_progress = @ + 1,
                                           !.hepta_pity = 0],
              draws  |-> IF forced THEN <<>> ELSE <<roll>>]
        ELSE [self   |-> self,
              locals |-> [paid EXCEPT !.hepta_pity = @ + 1],
              draws  |-> <<roll>>]

\* the Okta branch of the run_fast loop
fast_okta(self, locals, roll) ==
    LET paid == [locals EXCEPT
                    !.exquisite_crystals = @ + HEPTA_OKTA_CRYSTALS_PER_ATTEMPT,
                    !.silver = @ + _exquisite_cost(self.config.prices)
                                       * HEPTA_OKTA_CRYSTALS_PER_ATTEMPT,
                    !.branch = "okta"]
        forced == locals.okta_pity >= HEPTA_OKTA_ANVIL_PITY
        done   == locals.okta_progress + 1 >= OKTA_SUB_ENHANCEMENTS
    IN  IF forced \/ roll < HEPTA_OKTA_SUCCESS_RATE
        THEN [self   |-> IF done
                         THEN [self EXCEPT !.anvil_energy = DictSet(@, 9, 0)]
                         ELSE self,
              locals |-> IF done
                         THEN [paid EXCEPT !.okta_progress = 0, !.okta_pity = 0,
                                           !.level = 9]
                         ELSE [paid EXCEPT !.okta_progress = @ + 1,
                                           !.okta_pity = 0],
              draws  |-> IF forced THEN <<>> ELSE <<roll>>]
        ELSE [self   |-> self,
              locals |-> [paid EXCEPT !.okta_pity = @ + 1],
              draws  |-> <<roll>>]

\* the normal-enhancement branch of the run_fast loop
fast_normal(self, locals, roll, restoration_roll) ==
    LET level          == locals.level
        next_level     == level + 1
        valks          == fast_valks(self, next_level)
        current_energy == DictGet(self.anvil_energy, next_level, 0)
        max_energy     == DictGet(_ANVIL_CACHE, next_level, DEFAULT_THRESHOLD)
        anvil_triggered == fast_anvil_triggered(current_energy, max_energy)
        paid == [locals EXCEPT
                    !.silver = @ + valks.price + self.config.prices.crystal_price,
                    !.crystals = @ + 1,
                    !.anvil_triggered = anvil_triggered,
                    !.branch = "normal"]
        restore == level > 0 /\ self.config.restoration_from > 0
                       /\ level >= self.config.restoration_from
    IN  IF anvil_triggered \/ roll < valks.base_rate
        THEN [self   |-> [self EXCEPT !.anvil_energy = DictSet(@, next_level, 0)],
              locals |-> [paid EXCEPT !.level = next_level],
              draws  |-> IF anvil_triggered THEN <<>> ELSE <<roll>>]
        ELSE [self   |-> [self EXCEPT !.anvil_energy =
                                    DictSet(@, next_level, current_energy + 1)],
              locals |-> IF restore
                         THEN [paid EXCEPT
                                  !.scrolls = @ + RESTORATION_PER_ATTEMPT,
                                  !.silver = @ + restoration_attempt_cost(
                                                     self.config.prices),
                                  !.level = IF restoration_roll >= RESTORATION_SUCCESS_RATE
                                            THEN level - 1 ELSE level]
                         ELSE IF level > 0 THEN [paid EXCEPT !.level = level - 1]
                         ELSE paid,
              draws  |-> IF restore THEN <<roll, restoration_roll>> ELSE <<roll>>]

\* mutant of run_fast_iteration: the loop writes its level back to self.level
run_fast_iteration_writes_level(self, locals, roll, restoration_roll) ==
    LET out == IF fast_use_hepta(self, locals) THEN fast_hepta(self, locals, roll)
               ELSE IF fast_use_okta(self, locals) THEN fast_okta(self, locals, roll)
               ELSE fast_normal(self, locals, roll, restoration_roll)
    IN  [out EXCEPT !.self.level = out.locals.level]

\* one iteration of the while loop of run_fast
run_fast_iteration(self, locals, roll, restoration_roll) ==
    IF fast_use_hepta(self, locals) THEN fast_hepta(self, locals, roll)
    ELSE IF fast_use_okta(self, locals) THEN fast_okta(self, locals, roll)
    ELSE fast_normal(self, locals, roll, restoration_roll)

\* the number of iterations the run_fast loop has made
fast_iterations(locals) ==
    locals.crystals + locals.exquisite_crystals \div HEPTA_OKTA_CRYSTALS_PER_ATTEMPT

(***************************************************************************)
(* simulate_to_target (src/src/simulator.py): the run driver.              *)
(***************************************************************************)
\* SimulationResult(...) as simulate_to_target creates it; attempt_history is
\* an append-only log no code reads: the last attempt is kept in sim.attempt
SimulationResult(target) ==
    [target_level |-> target, total_attempts |-> 0, successes |-> 0,
     failures |-> 0, anvil_triggers |-> 0, restoration_attempts |-> 0,
     restoration_successes |-> 0, level_drops |-> 0,
     materials_used |-> EmptyDict, silver_cost |-> 0]

\* the accumulation of one attempt's materials into result.materials_used
accumulate_materials(materials_used, materials_cost) ==
    [mat \in DOMAIN materials_used \cup DOMAIN materials_cost |->
        DictGet(materials_used, mat, 0) + DictGet(materials_cost, mat, 0)]

\* mutant of record_attempt: a pity-forced attempt is not counted
record_attempt_forced_uncounted(res, att) ==
    [res EXCEPT
        !.total_attempts = IF att.anvil_triggered THEN @ ELSE @ + 1,
        !.successes = IF att.success THEN @ + 1 ELSE @,
        !.failures  = IF att.success THEN @ ELSE @ + 1,
        !.anvil_triggers = IF att.anvil_triggered THEN @ + 1 ELSE @,
        !.restoration_attempts = IF att.restoration_attempted THEN @ + 1 ELSE @,
        !.restoration_successes =
            IF att.restoration_attempted /\ att.restoration_success
            THEN @ + 1 ELSE @,
        !.level_drops =
            IF att.restoration_attempted
            THEN (IF att.restoration_success THEN @ ELSE @ + 1)
            ELSE (IF ~att.success /\ att.starting_level > 0 THEN @ + 1 ELSE @),
        !.materials_used = accumulate_materials(@, att.materials_cost)]

\* a ledger update that counts a level drop for every recovery attempt
record_attempt_drop_on_recovery(res, att) ==
    [res EXCEPT
        !.total_attempts = @ + 1,
        !.successes = IF att.success THEN @ + 1 ELSE @,
        !.failures  = IF att.success THEN @ ELSE @ + 1,
        !.anvil_triggers = IF att.anvil_triggered THEN @ + 1 ELSE @,
        !.restoration_attempts = IF att.restoration_attempted THEN @ + 1 ELSE @,
        !.restoration_successes =
            IF att.restoration_attempted /\ att.restoration_success
            THEN @ + 1 ELSE @,
        !.level_drops =
            IF att.restoration_attempted
            THEN @ + 1
            ELSE (IF ~att.success /\ att.starting_level > 0 THEN @ + 1 ELSE @),
        !.materials_used = accumulate_materials(@, att.materials_cost)]

\* the ledger update of the loop body of simulate_to_target
record_attempt(res, att) ==
    [res EXCEPT
        !.total_attempts = @ + 1,
        !.successes = IF att.success THEN @ + 1 ELSE @,
        !.failures  = IF att.success THEN @ ELSE @ + 1,
        !.anvil_triggers = IF att.anvil_triggered THEN @ + 1 ELSE @,
        !.restoration_attempts = IF att.restoration_attempted THEN @ + 1 ELSE @,
        !.restoration_successes =
            IF att.restoration_attempted /\ att.restoration_success
            THEN @ + 1 ELSE @,
        !.level_drops =
            IF att.restoration_attempted
            THEN (IF att.restoration_success THEN @ ELSE @ + 1)
            ELSE (IF ~att.success /\ att.starting_level > 0 THEN @ + 1 ELSE @),
        !.materials_used = accumulate_materials(@, att.materials_cost)]

\* the silver cost simulate_to_target computes after the loop
silver_cost(materials_used) ==
    SumDict([mat \in DOMAIN materials_used |->
                get_effective_price(mat) * materials_used[mat]])

\* sum of a list of integers
RECURSIVE SumSeq(_)
SumSeq(data) == IF data = <<>> THEN 0 ELSE Head(data) + SumSeq(Tail(data))

\* the builtin sorted() on a list of integers
RECURSIVE sorted(_)
sorted(data) ==
    IF data = <<>> THEN <<>>
    ELSE LET x    == Head(data)
             rest == sorted(Tail(data))
         IN  SelectSeq(rest, LAMBDA y : y <= x) \o <<x>> \o
             SelectSeq(rest, LAMBDA y : y > x)

percentile_next_rank(data, p) ==
    data[Min((Len(data) * p) \div PERCENT + 1, Len(data) - 1) + 1]

\* percentile(data, p) of run_monte_carlo on a non-empty list; p is given in
\* percent, so that int(len(data) * p) is floor(len(data) * p / 100)
percentile(data, p) ==
    LET idx == (Len(data) * p) \div PERCENT
    IN  data[Min(idx, Len(data) - 1) + 1]

\* mutant of percentile_idx: the index is rounded up and not clamped
percentile_idx_ceiling(data, p) ==
    (Len(data) * p + PERCENT - 1) \div PERCENT

\* the index percentile(data, p) reads: min(int(len(data) * p), len(data) - 1)
percentile_idx(data, p) ==
    Min((Len(data) * p) \div PERCENT, Len(data) - 1)

\* data[i] of a Python list is defined for -len(data) <= i < len(data) and
\* raises IndexError otherwise
index_in_range(data, i) == -Len(data) <= i /\ i < Len(data)

\* average(data) of run_monte_carlo, as the exact quotient num / den
average(data) ==
    IF data # <<>> THEN [num |-> SumSeq(data), den |-> Len(data)]
    ELSE [num |-> 0, den |-> 1]

\* the sorted metric lists run_monte_carlo builds from its results
mc_attempts(results) ==
    sorted([i \in 1..Len(results) |-> results[i].total_attempts])

mc_silver_costs(results) ==
    sorted([i \in 1..Len(results) |-> results[i].silver_cost])

\* the dictionary run_monte_carlo returns, for at least one result
run_monte_carlo_stats(num_simulations, target_level, strategy, results) ==
    LET attempts       == mc_attempts(results)
        silver_costs   == mc_silver_costs(results)
        crystals       ==
            sorted([i \in 1..Len(results) |->
                DictGet(results[i].materials_used, "pristine_black_crystal", 0)])
        scrolls        ==
            sorted([i \in 1..Len(results) |->
                DictGet(results[i].materials_used, "restoration_scroll", 0)])
        level_drops    ==
            sorted([i \in 1..Len(results) |-> results[i].level_drops])
        anvil_triggers ==
            sorted([i \in 1..Len(results) |-> results[i].anvil_triggers])
        last(data)     == data[Len(data)]
    IN  [num_simulations |-> num_simulations,
         target_level |-> target_level,
         strategy |-> [restoration |-> strategy.restoration,
                       valks |-> strategy.valks],
         attempts |->
             [average |-> average(attempts),
              p50 |-> percentile(attempts, 50),
              p90 |-> percentile(attempts, 90),
              p99 |-> percentile(attempts, 99),
              worst |-> last(attempts)],
         silver_cost |->
             [average |-> average(silver_costs),
              p50 |-> percentile(silver_costs, 50),
              p90 |-> percentile(silver_costs, 90),
              p99 |-> percentile(silver_costs, 99),
              worst |-> last(silver_costs)],
         pristine_black_crystals |->
             [average |-> average(crystals),
              p50 |-> percentile(crystals, 50),
              p90 |-> percentile(crystals, 90),
              worst |-> last(crystals)],
         restoration_scrolls |->
             [average |-> average(scrolls),
              p50 |-> percentile(scrolls, 50),
              p90 |-> percentile(scrolls, 90),
              worst |-> last(scrolls)],
         level_drops |->
             [average |-> average(level_drops),
              p50 |-> percentile(level_drops, 50),
              p90 |-> percentile(level_drops, 90),
              worst |-> last(level_drops)],
         anvil_triggers |->
             [average |-> average(anvil_triggers),
              p50 |-> percentile(anvil_triggers, 50),
              p90 |-> percentile(anvil_triggers, 90)]]

\* the indices the strategy-comparison screen of the TUI reads from its
\* list sorted by silver
tui_p50_idx(n) == n \div 2

tui_p90_idx(n) == (n * 90) \div PERCENT

(***************************************************************************)
(* The state.                                                              *)
(*   pc        where the program is: "simulate_to_target" (in the loop of  *)
(*             simulate_to_target), "returned" (it returned), "idle" (an   *)
(*             engine between calls), "run_fast" (in the loop of run_fast) *)
(*   sim       simulate_to_target's arguments and locals                   *)
(*   engine    the AwakeningEngine object                                  *)
(*   last_step the StepResult the last step() returned, if any             *)
(*   fast      the local variables of run_fast                             *)
(*   returned  the tuple the last run_fast() returned, if any              *)
(*   draws     the values the last operation drew from rng.random()        *)
(*   raised    the exception the last call raised, or "None"               *)
(*   mc        run_monte_carlo's arguments, its results list and the       *)
(*             statistics it returned, if any                              *)
(*   screen    the TUI screen object, its asyncio tasks and their locals   *)
(***************************************************************************)
VARIABLES pc, sim, engine, last_step, fast, returned, draws, raised, mc,
          screen, twin

vars == <<pc, sim, engine, last_step, fast, returned, draws, raised, mc,
          screen, twin>>

\* EnhancementStrategy values explored (defaults: threshold 3, large from 6)
EnhancementStrategy(restoration, valks) ==
    [restoration |-> restoration, restoration_threshold |-> 3,
     valks |-> valks, valks_large_threshold |-> 6]

Strategies ==
    {EnhancementStrategy("never", "never"),
     EnhancementStrategy("always", "never"),
     EnhancementStrategy("always", "small_only"),
     EnhancementStrategy("never", "large_only"),
     EnhancementStrategy("above_threshold", "optimal"),
     EnhancementStrategy("cost_efficient", "large_high")}

\* starting/target tiers explored
LevelPairs ==
    {p \in (0..10) \X (0..10) : p[1] <= p[2] /\ p[2] <= p[1] + MaxSpan}

\* pity energy a starting GearState may carry for its next target tier
StartEnergies(start_level) ==
    LET t   == start_level + 1
        thr == DictGet(ANVIL_THRESHOLDS_AWAKENING, t, DEFAULT_THRESHOLD)
    IN  {EmptyDict} \cup
        (IF t \in Levels /\ thr > 0
         THEN {DictSet(EmptyDict, t, thr - 1), DictSet(EmptyDict, t, thr)}
         ELSE {})

simulate_to_target_in_place(target, strategy, starting_state, max_attempts) ==
    [strategy |-> strategy, target_level |-> target,
     max_attempts |-> max_attempts, starting_state |-> starting_state,
     gear |-> starting_state, gear_ref |-> "starting_state",
     result |-> SimulationResult(target), attempt |-> <<>>]

\* simulate_to_target(target_level, strategy, starting_state, max_attempts)
\* up to the while loop.  starting_state is the caller's GearState object;
\* gear_ref tells which object the local gear names: "copy", the new object
\* starting_state.copy() has built, or "starting_state", the caller's own
simulate_to_target(target, strategy, starting_state, max_attempts) ==
    [strategy |-> strategy, target_level |-> target,
     max_attempts |-> max_attempts, starting_state |-> starting_state,
     gear |-> copy(starting_state), gear_ref |-> "copy",
     result |-> SimulationResult(target), attempt |-> <<>>]

MarketPrices(crystal_price, restoration_bundle_price, valks_10_price, valks_50_price, valks_100_price) ==
    [crystal_price |-> crystal_price,
     restoration_bundle_price |-> restoration_bundle_price,
     valks_10_price |-> valks_10_price, valks_50_price |-> valks_50_price,
     valks_100_price |-> valks_100_price]

SimulationConfig(start_level, target, restoration_from, use_hepta, use_okta, start_hepta, start_okta, valks_from, prices) ==
    [start_level |-> start_level, target_level |-> target,
     restoration_from |-> restoration_from,
     use_hepta |-> use_hepta, use_okta |-> use_okta,
     start_hepta |-> start_hepta, start_okta |-> start_okta,
     valks_10_from |-> valks_from[1], valks_50_from |-> valks_from[2],
     valks_100_from |-> valks_from[3], prices |-> prices]

\* prices explored, in units of 1,000,000 silver
Prices == MarketPrices(35, 1000000, 2, 3, 5)

\* SimulationConfig values explored: normal runs over all tiers, and runs
\* around the Hepta/Okta entry tiers with every path option
\* <<restoration_from, <<valks_10_from, valks_50_from, valks_100_from>>>>
NormalOptions ==
    {<<0, <<0, 0, 0>>>>, <<1, <<0, 0, 0>>>>, <<6, <<1, 3, 5>>>>,
     <<1, <<0, 0, 1>>>>}

\* <<use_hepta, use_okta, start_hepta, start_okta>>
PathOptions ==
    {<<TRUE, TRUE, 0, 0>>, <<TRUE, FALSE, 3, 0>>, <<FALSE, TRUE, 0, 8>>,
     <<FALSE, FALSE, 4, 9>>, <<FALSE, FALSE, 0, 0>>,
     <<TRUE, TRUE, HEPTA_SUB_ENHANCEMENTS, OKTA_SUB_ENHANCEMENTS>>}

Configs ==
    {SimulationConfig(p[1], p[2], n[1], FALSE, FALSE, 0, 0, n[2], Prices) :
        p \in LevelPairs, n \in NormalOptions}
    \cup
    {SimulationConfig(p[1], p[2], 6, o[1], o[2], o[3], o[4], <<1, 3, 5>>, Prices) :
        p \in {q \in LevelPairs : q[1] \in 6..8 /\ q[2] \in 8..10},
        o \in PathOptions}

\* the engine and the run driver that are not in use
IdleEngine == reset(SimulationConfig(0, 9, 6, FALSE, FALSE, 0, 0, <<1, 3, 5>>, Prices))

IdleSim ==
    simulate_to_target(0, EnhancementStrategy("always", "never"),
        [awakening_level |-> 0, anvil_energy |-> EmptyDict], 0)

\* run_monte_carlo(target_level, strategy, num_simulations, starting_state)
\* up to its for loop
run_monte_carlo(target_level, strategy, num_simulations, starting_state) ==
    [target_level |-> target_level, strategy |-> strategy,
     num_simulations |-> num_simulations, starting_state |-> starting_state,
     results |-> <<>>, stats |-> <<>>]

\* run_monte_carlo while it is not running
NoMonteCarlo ==
    run_monte_carlo(0, EnhancementStrategy("always", "never"), 0,
        [awakening_level |-> 0, anvil_energy |-> EmptyDict])

\* no TUI screen is mounted
NoScreen == [kind |-> "None"]

\* no pair of engines under comparison
NoTwin == [kind |-> "None"]

\* the locals of run_fast while run_fast is not running
NoLocals == run_fast_locals(IdleEngine)

InitSimulator ==
    /\ pc = "simulate_to_target"
    /\ \E p \in LevelPairs, strategy \in Strategies,
          max_attempts \in {0, 1, MaxAttempts} :
          \E energy \in StartEnergies(p[1]) :
             sim = simulate_to_target(p[2], strategy,
                       [awakening_level |-> p[1], anvil_energy |-> energy],
                       max_attempts)
    /\ engine = IdleEngine

InitEngine ==
    /\ pc = "idle"
    /\ sim = IdleSim
    /\ \E config \in Configs : engine = reset(config)

Init ==
    /\ InitSimulator \/ InitEngine
    /\ last_step = <<>>
    /\ fast = NoLocals
    /\ returned = <<>>
    /\ draws = <<>>
    /\ raised = "None"
    /\ mc = NoMonteCarlo
    /\ screen = NoScreen
    /\ twin = NoTwin

\* one iteration of the while loop of simulate_to_target
SimulateAttempt ==
    /\ pc = "simulate_to_target"
    /\ sim.gear.awakening_level < sim.target_level
    /\ sim.result.total_attempts < sim.max_attempts
    /\ ~at_max_level(sim.gear)
    /\ \E roll \in Rolls, restoration_roll \in Rolls :
          LET out == attempt_enhancement(sim.gear, sim.strategy, roll,
                                         restoration_roll)
          IN  /\ sim' = [sim EXCEPT !.gear = out.gear,
                                    !.starting_state =
                                        IF sim.gear_ref = "starting_state"
                                        THEN out.gear ELSE @,
                                    !.attempt = <<out.result>>,
                                    !.result = record_attempt(@, out.result)]
              /\ draws' = out.draws
    /\ raised' = "None"
    /\ UNCHANGED <<pc, engine, last_step, fast, returned, mc, screen, twin>>

\* the end of simulate_to_target: silver cost, return
SimulateReturn ==
    /\ pc = "simulate_to_target"
    /\ ~(/\ sim.gear.awakening_level < sim.target_level
         /\ sim.result.total_attempts < sim.max_attempts)
    /\ sim' = [sim EXCEPT !.result.silver_cost =
                              @ + silver_cost(sim.result.materials_used)]
    /\ pc' = "returned"
    /\ draws' = <<>>
    /\ raised' = "None"
    /\ UNCHANGED <<engine, last_step, fast, returned, mc, screen, twin>>

\* engine.step(), not complete
Step ==
    /\ pc = "idle"
    /\ returned = <<>>
    /\ ~is_complete(engine)
    /\ engine.attempts < MaxAttempts
    /\ \E roll \in Rolls, restoration_roll \in Rolls :
          LET out == step(engine, roll, restoration_roll)
          IN  /\ engine' = out.self
              /\ last_step' = <<out.result>>
              /\ draws' = out.draws
    /\ raised' = "None"
    /\ UNCHANGED <<pc, sim, fast, returned, mc, screen, twin>>

\* engine.step() when is_complete(): RuntimeError
StepRaises ==
    /\ pc = "idle"
    /\ is_complete(engine)
    /\ raised = "None"
    /\ raised' = "RuntimeError"
    /\ draws' = <<>>
    /\ UNCHANGED <<pc, sim, engine, last_step, fast, returned, mc, screen, twin>>

\* attempt_enhancement(gear, strategy) on the gear a run has left at tier X:
\* ValueError, raised before the gear is touched or a number is drawn
AttemptRaises ==
    /\ pc = "returned"
    /\ at_max_level(sim.gear)
    /\ raised = "None"
    /\ raised' = "ValueError"
    /\ draws' = <<>>
    /\ UNCHANGED <<pc, sim, engine, last_step, fast, returned, mc, screen, twin>>

\* engine.run_fast() is called: the locals are set up
RunFastBegin ==
    /\ pc = "idle"
    /\ engine.attempts = 0
    /\ returned = <<>>
    /\ pc' = "run_fast"
    /\ fast' = run_fast_locals(engine)
    /\ draws' = <<>>
    /\ raised' = "None"
    /\ UNCHANGED <<sim, engine, last_step, returned, mc, screen, twin>>

\* one iteration of the while loop of run_fast
RunFastIteration ==
    /\ pc = "run_fast"
    /\ fast.level < engine.config.target_level
    /\ fast_iterations(fast) < MaxAttempts
    /\ \E roll \in Rolls, restoration_roll \in Rolls :
          LET out == run_fast_iteration(engine, fast, roll, restoration_roll)
          IN  /\ engine' = out.self
              /\ fast' = out.locals
              /\ draws' = out.draws
    /\ UNCHANGED <<pc, sim, last_step, returned, raised, mc, screen, twin>>

\* run_fast leaves its loop and returns its tuple
RunFastReturn ==
    /\ pc = "run_fast"
    /\ ~(fast.level < engine.config.target_level)
    /\ pc' = "idle"
    /\ returned' = <<fast.crystals, fast.scrolls, fast.silver,
                     fast.exquisite_crystals>>
    /\ fast' = NoLocals
    /\ draws' = <<>>
    /\ UNCHANGED <<sim, engine, last_step, raised, mc, screen, twin>>

\* engine.reset()
Reset ==
    /\ pc = "idle"
    /\ engine # reset(engine.config) \/ returned # <<>>
    /\ engine' = reset(engine.config)
    /\ returned' = <<>>
    /\ last_step' = <<>>
    /\ draws' = <<>>
    /\ raised' = "None"
    /\ UNCHANGED <<pc, sim, fast, mc, screen, twin>>

Next ==
    \/ SimulateAttempt
    \/ SimulateReturn
    \/ Step
    \/ StepRaises
    \/ AttemptRaises
    \/ RunFastBegin
    \/ RunFastIteration
    \/ RunFastReturn
    \/ Reset

Spec == Init /\ [][Next]_vars

(***************************************************************************)
(* Properties.                                                             *)
(***************************************************************************)
\* simulate_to_target is about to make an attempt
SimAttemptEnabled ==
    /\ pc = "simulate_to_target"
    /\ sim.gear.awakening_level < sim.target_level
    /\ sim.result.total_attempts < sim.max_attempts

\* the next step() resolves a normal attempt
StepIsNormal ==
    /\ pc = "idle"
    /\ returned = <<>>
    /\ ~is_complete(engine)
    /\ ~_should_use_hepta(engine)
    /\ ~_should_use_okta(engine)

\* the next iteration of run_fast resolves a normal attempt
FastIsNormal ==
    /\ pc = "run_fast"
    /\ fast.level < engine.config.target_level
    /\ ~fast_use_hepta(engine, fast)
    /\ ~fast_use_okta(engine, fast)

\* the configured pity threshold of a tier
Threshold(t) == ANVIL_THRESHOLDS_AWAKENING[t]

\* C1: in attempt_enhancement an attempt is pity-forced only if the target
\* tier's threshold is > 0 (and its energy has reached the threshold); for a
\* tier whose threshold is 0 no attempt is forced, and a draw that is not
\* below the success rate yields a failed attempt.  Stated of the attempt
\* simulate_to_target has just made.
C1_SimPityDisabledAtZero ==
    sim.attempt # <<>> =>
        LET a == sim.attempt[1]
            t == a.starting_level + 1
        IN  /\ a.anvil_triggered => Threshold(t) > 0
            /\ (Threshold(t) = 0 /\ draws # <<>>
                  /\ draws[1] >= _get_success_rate(t, a.valks_used))
               => ~a.success

\* C2: in AwakeningEngine (step() and run_fast()) a normal attempt on a tier
\* t with threshold T > 0 and energy[t] >= T succeeds whatever the draw, the
\* level becomes t and energy[t] becomes 0; and an attempt is pity-forced
\* only in that case.
C2_EnginePityGuarantee ==
    /\ StepIsNormal =>
          LET t == engine.level + 1
              due == Threshold(t) > 0
                        /\ DictGet(engine.anvil_energy, t, 0) >= Threshold(t)
          IN  \A roll \in Rolls, restoration_roll \in Rolls :
                 LET out == step(engine, roll, restoration_roll)
                 IN  /\ due => /\ out.result.success
                               /\ out.self.level = t
                               /\ t \in DOMAIN out.self.anvil_energy
                               /\ out.self.anvil_energy[t] = 0
                     /\ out.result.anvil_triggered <=> due
    /\ FastIsNormal =>
          LET t == fast.level + 1
              due == Threshold(t) > 0
                        /\ DictGet(engine.anvil_energy, t, 0) >= Threshold(t)
          IN  \A roll \in Rolls, restoration_roll \in Rolls :
                 LET out == run_fast_iteration(engine, fast, roll, restoration_roll)
                 IN  /\ due => /\ out.locals.level = t
                               /\ t \in DOMAIN out.self.anvil_energy
                               /\ out.self.anvil_energy[t] = 0
                     /\ out.locals.anvil_triggered <=> due

\* C2 witness: a step() was pity-forced on a tier with a threshold > 0
C2_Witness ==
    /\ last_step # <<>>
    /\ last_step[1].anvil_triggered
    /\ last_step[1].success
    /\ Threshold(last_step[1].ending_level) > 0
    /\ engine.level = last_step[1].ending_level
    /\ engine.anvil_energy[engine.level] = 0
    /\ draws = <<>>

\* the pity energies of the tiers other than t are the same in both dicts
OthersUnchanged(before, after, t) ==
    \A u \in (DOMAIN before \cup DOMAIN after) \ {t} :
        /\ u \in DOMAIN before
        /\ u \in DOMAIN after
        /\ before[u] = after[u]

\* C3: a failed normal attempt on tier t adds exactly 1 to energy[t]
\* (whatever recovery does), a successful one sets it to 0, and no other
\* tier's energy changes.
C3_PityBookkeeping ==
    /\ SimAttemptEnabled =>
          LET t == sim.gear.awakening_level + 1
          IN  \A roll \in Rolls, restoration_roll \in Rolls :
                 LET out == attempt_enhancement(sim.gear, sim.strategy, roll,
                                                restoration_roll)
                 IN  /\ get_energy(out.gear, t) =
                           IF out.result.success THEN 0
                           ELSE get_energy(sim.gear, t) + 1
                     /\ OthersUnchanged(sim.gear.anvil_energy,
                                        out.gear.anvil_energy, t)
    /\ StepIsNormal =>
          LET t == engine.level + 1
          IN  \A roll \in Rolls, restoration_roll \in Rolls :
                 LET out == _perform_enhancement_step(engine, roll, restoration_roll)
                 IN  /\ DictGet(out.self.anvil_energy, t, 0) =
                           IF out.result.success THEN 0
                           ELSE DictGet(engine.anvil_energy, t, 0) + 1
                     /\ OthersUnchanged(engine.anvil_energy,
                                        out.self.anvil_energy, t)

\* C3 witness: a second failure on the same tier, ending in a downgrade,
\* found the energy of the first failure still there
C3_Witness ==
    /\ last_step # <<>>
    /\ ~last_step[1].success
    /\ last_step[1].ending_level < last_step[1].starting_level
    /\ DictGet(engine.anvil_energy, last_step[1].starting_level + 1, 0) = 2

\* C4: the tier stays within [0, target] and never exceeds 10.
C4_TierWithinBounds ==
    /\ sim.gear.awakening_level >= 0
    /\ sim.gear.awakening_level <= sim.target_level
    /\ sim.gear.awakening_level <= 10
    /\ engine.level >= 0
    /\ engine.level <= engine.config.target_level
    /\ engine.level <= 10
    /\ pc = "run_fast" =>
          /\ fast.level >= 0
          /\ fast.level <= engine.config.target_level
          /\ fast.level <= 10

\* C4 witness: a failed attempt at tier 0 left the tier at 0
C4_Witness ==
    /\ last_step # <<>>
    /\ ~last_step[1].success
    /\ last_step[1].starting_level = 0
    /\ engine.level = 0

\* C5: after a failed normal attempt from tier k: with k > 0 and recovery
\* selected by the policy, 200 scrolls are charged and the tier ends at k
\* when the recovery draw succeeds and at k-1 when it fails; with k > 0 and
\* no recovery the tier ends at k-1 and no scroll is charged; with k = 0 the
\* tier stays 0 and recovery is neither attempted nor charged, also by the
\* failure branch of attempt_enhancement under an "always" policy.  A
\* successful attempt never attempts or charges recovery.
C5_RecoveryOnFailure ==
    /\ SimAttemptEnabled =>
          LET k == sim.gear.awakening_level
              selected == k > 0 /\ _should_use_restoration(k, sim.strategy)
          IN  \A roll \in Rolls, restoration_roll \in Rolls :
                 LET out == attempt_enhancement(sim.gear, sim.strategy, roll,
                                                restoration_roll)
                     res == out.result
                     charged == DictGet(res.materials_cost, "restoration_scroll", 0)
                 IN  /\ res.success =>
                           ~res.restoration_attempted /\ charged = 0
                     /\ (~res.success /\ selected) =>
                           /\ res.restoration_attempted
                           /\ charged = 200
                           /\ res.restoration_success
                                 <=> restoration_roll < RESTORATION_SUCCESS_RATE
                           /\ out.gear.awakening_level =
                                 IF restoration_roll < RESTORATION_SUCCESS_RATE
                                 THEN k ELSE k - 1
                     /\ (~res.success /\ ~selected) =>
                           /\ ~res.restoration_attempted
                           /\ charged = 0
                           /\ out.gear.awakening_level =
                                 IF k > 0 THEN k - 1 ELSE 0
                     /\ res.ending_level = out.gear.awakening_level
    /\ (SimAttemptEnabled /\ sim.gear.awakening_level = 0) =>
          \A roll \in Rolls, restoration_roll \in Rolls :
             LET out == sim_failure(sim.gear, sim.strategy, 1,
                            _get_valks_type(1, sim.strategy),
                            sim_materials(1, _get_valks_type(1, sim.strategy)),
                            roll, restoration_roll)
             IN  /\ out.gear.awakening_level = 0
                 /\ ~out.result.restoration_attempted
                 /\ "restoration_scroll" \notin DOMAIN out.result.materials_cost
                 /\ Len(out.draws) = 1
    /\ StepIsNormal =>
          LET k == engine.level
              selected == k > 0 /\ engine_should_use_restoration(engine)
          IN  \A roll \in Rolls, restoration_roll \in Rolls :
                 LET out == _perform_enhancement_step(engine, roll, restoration_roll)
                     res == out.result
                     charged == out.self.scrolls - engine.scrolls
                 IN  /\ res.success =>
                           ~res.restoration_attempted /\ charged = 0
                     /\ (~res.success /\ selected) =>
                           /\ res.restoration_attempted
                           /\ charged = 200
                           /\ res.restoration_success
                                 <=> restoration_roll < RESTORATION_SUCCESS_RATE
                           /\ out.self.level =
                                 IF restoration_roll < RESTORATION_SUCCESS_RATE
                                 THEN k ELSE k - 1
                     /\ (~res.success /\ ~selected) =>
                           /\ ~res.restoration_attempted
                           /\ charged = 0
                           /\ out.self.level = IF k > 0 THEN k - 1 ELSE 0
                     /\ res.ending_level = out.self.level

\* C5 witness: a failed step() whose recovery draw succeeded kept the tier
\* and charged 200 scrolls
C5_Witness ==
    /\ last_step # <<>>
    /\ ~last_step[1].success
    /\ last_step[1].restoration_attempted
    /\ last_step[1].restoration_success
    /\ engine.level = last_step[1].starting_level
    /\ engine.scrolls = 200
    /\ Len(draws) = 2

\* the Valks counters of an engine, by type
ValksUsed(self) ==
    [v \in {"10", "50", "100"} |->
        CASE v = "10" -> self.valks_10_used
          [] v = "50" -> self.valks_50_used
          [] v = "100" -> self.valks_100_used]

\* the Valks materials an attempt of the simulator charged
ValksCharged(materials_cost) ==
    {m \in DOMAIN materials_cost : m \in {"valks_advice_10", "valks_advice_50",
                                          "valks_advice_100"}}

\* C6: every normal attempt consumes exactly 1 primary crystal and, when a
\* Valks type is selected for the target, exactly 1 unit of that type and of
\* no other type, whether the attempt succeeds, is pity-forced or fails.
C6_AttemptConsumption ==
    /\ SimAttemptEnabled =>
          LET t == sim.gear.awakening_level + 1
              sel == _get_valks_type(t, sim.strategy)
          IN  \A roll \in Rolls, restoration_roll \in Rolls :
                 LET cost == attempt_enhancement(sim.gear, sim.strategy, roll,
                                 restoration_roll).result.materials_cost
                 IN  /\ DictGet(cost, "pristine_black_crystal", 0) = 1
                     /\ ValksCharged(cost) =
                           IF sel = "small" THEN {"valks_advice_10"}
                           ELSE IF sel = "large" THEN {"valks_advice_50"}
                           ELSE {}
                     /\ \A m \in ValksCharged(cost) : cost[m] = 1
    /\ StepIsNormal =>
          LET t == engine.level + 1
              sel == _get_valks_for_level(engine, t)
          IN  \A roll \in Rolls, restoration_roll \in Rolls :
                 LET out == _perform_enhancement_step(engine, roll, restoration_roll)
                 IN  /\ out.self.crystals = engine.crystals + 1
                     /\ out.self.exquisite_crystals = engine.exquisite_crystals
                     /\ out.result.valks_used = sel
                     /\ \A v \in {"10", "50", "100"} :
                           ValksUsed(out.self)[v] =
                               ValksUsed(engine)[v] + (IF v = sel THEN 1 ELSE 0)

\* C6 witness: after two failed attempts a pity-forced step() with the x2.0
\* Valks selected: each of the three attempts charged 1 crystal and 1 Valks
C6_Witness ==
    /\ last_step # <<>>
    /\ last_step[1].anvil_triggered
    /\ last_step[1].valks_used = "100"
    /\ engine.attempts = 3
    /\ engine.crystals = 3
    /\ engine.valks_100_used = 3
    /\ engine.valks_10_used = 0
    /\ engine.valks_50_used = 0

\* the multiplier of a Valks type, as a percentage
Multiplier(v) ==
    CASE v \in {"small", "10"} -> VALKS_MULTIPLIER_10
      [] v \in {"large", "50"} -> VALKS_MULTIPLIER_50
      [] v = "100" -> VALKS_MULTIPLIER_100
      [] OTHER -> PERCENT

\* min(1.0, baseRate(t) x multiplier)
EffectiveRate(t, m) ==
    Min(RATE_ONE, (AWAKENING_ENHANCEMENT_RATES[t] * m) \div PERCENT)

\* a rate is min(1.0, base x multiplier), at most 1.0 and at least the base
RateIsEffective(r, t, v) ==
    /\ r = EffectiveRate(t, Multiplier(v))
    /\ r <= RATE_ONE
    /\ r >= AWAKENING_ENHANCEMENT_RATES[t]

\* C7: the effective success probability of a normal attempt is
\* min(1.0, baseRate(target) x multiplier), multiplier 1 when no Valks type
\* is selected; it never exceeds 1.0 (0.70 x 2.0 gives 1.0) and is never
\* below the base rate, in the simulator and in both engine paths.
C7_EffectiveProbability ==
    /\ \A t \in Levels :
          \A v \in {"None", "small", "large", "10", "50", "100"} :
             RateIsEffective(_get_success_rate(t, v), t, v)
    /\ _get_success_rate(1, "100") = RATE_ONE
    /\ StepIsNormal =>
          LET t == engine.level + 1
          IN  RateIsEffective(step_valks(engine, t).base_rate, t,
                              _get_valks_for_level(engine, t))
    /\ FastIsNormal =>
          LET t == fast.level + 1
          IN  RateIsEffective(fast_valks(engine, t).base_rate, t,
                              _get_valks_for_level(engine, t))

\* C7 witness: with the x2.0 Valks the attempt on tier 1 succeeded on the
\* largest draw, which is below a rate of 1.0 only
C7_Witness ==
    /\ last_step # <<>>
    /\ last_step[1].success
    /\ ~last_step[1].anvil_triggered
    /\ last_step[1].valks_used = "100"
    /\ last_step[1].ending_level = 1
    /\ draws = <<RATE_ONE - 1>>

\* C8: once a path has partial progress at its entry tier (Hepta at 7, Okta
\* at 8), every step of the engine (step() and run_fast()) is a sub-attempt
\* of that path, whatever the use_hepta/use_okta flag: no normal attempt is
\* made and the progress is kept until the path completes and the tier
\* advances.
C8_PathContinuation ==
    /\ (pc = "idle" /\ returned = <<>> /\ ~is_complete(engine)) =>
          \A roll \in Rolls, restoration_roll \in Rolls :
             LET out == step(engine, roll, restoration_roll)
             IN  /\ (engine.level = 7 /\ engine.hepta_progress > 0
                       /\ engine.hepta_progress < HEPTA_SUB_ENHANCEMENTS) =>
                        /\ out.result.is_hepta_okta
                        /\ out.result.path_name = "Hepta"
                        /\ out.self.crystals = engine.crystals
                        /\ \/ /\ out.self.level = 7
                              /\ out.self.hepta_progress >= engine.hepta_progress
                           \/ /\ out.self.level = 8
                              /\ out.result.path_complete
                 /\ (engine.level = 8 /\ engine.okta_progress > 0
                       /\ engine.okta_progress < OKTA_SUB_ENHANCEMENTS) =>
                        /\ out.result.is_hepta_okta
                        /\ out.result.path_name = "Okta"
                        /\ out.self.crystals = engine.crystals
                        /\ \/ /\ out.self.level = 8
                              /\ out.self.okta_progress >= engine.okta_progress
                           \/ /\ out.self.level = 9
                              /\ out.result.path_complete
    /\ (pc = "run_fast" /\ fast.level < engine.config.target_level) =>
          \A roll \in Rolls, restoration_roll \in Rolls :
             LET out == run_fast_iteration(engine, fast, roll, restoration_roll)
             IN  /\ (fast.level = 7 /\ fast.hepta_progress > 0
                       /\ fast.hepta_progress < HEPTA_SUB_ENHANCEMENTS) =>
                        /\ out.locals.branch = "hepta"
                        /\ out.locals.crystals = fast.crystals
                        /\ \/ /\ out.locals.level = 7
                              /\ out.locals.hepta_progress >= fast.hepta_progress
                           \/ out.locals.level = 8
                 /\ (fast.level = 8 /\ fast.okta_progress > 0
                       /\ fast.okta_progress < OKTA_SUB_ENHANCEMENTS) =>
                        /\ out.locals.branch = "okta"
                        /\ out.locals.crystals = fast.crystals
                        /\ \/ /\ out.locals.level = 8
                              /\ out.locals.okta_progress >= fast.okta_progress
                           \/ out.locals.level = 9

\* C8 witness: with use_hepta off, two consecutive Hepta sub-attempts failed
\* and the partial progress is still there
C8_Witness ==
    /\ last_step # <<>>
    /\ last_step[1].is_hepta_okta
    /\ last_step[1].path_name = "Hepta"
    /\ ~engine.config.use_hepta
    /\ engine.hepta_pity = 2
    /\ engine.hepta_progress = engine.config.start_hepta
    /\ engine.hepta_progress > 0

\* C9: the engine makes a sub-attempt only while the tier is 7 (Hepta) or 8
\* (Okta) and that path's progress is below its length; at every other
\* tier, and at tier 7/8 with the path's flag off and progress 0, step()
\* and run_fast() resolve a normal attempt.
C9_PathEligibility ==
    /\ (pc = "idle" /\ returned = <<>> /\ ~is_complete(engine)) =>
          \A roll \in Rolls, restoration_roll \in Rolls :
             LET out == step(engine, roll, restoration_roll)
             IN  /\ out.result.is_hepta_okta =>
                       \/ /\ out.result.path_name = "Hepta"
                          /\ engine.level = 7
                          /\ engine.hepta_progress < 5
                       \/ /\ out.result.path_name = "Okta"
                          /\ engine.level = 8
                          /\ engine.okta_progress < 10
                 /\ (\/ engine.level \notin {7, 8}
                     \/ /\ engine.level = 7
                        /\ ~engine.config.use_hepta
                        /\ engine.hepta_progress = 0
                     \/ /\ engine.level = 8
                        /\ ~engine.config.use_okta
                        /\ engine.okta_progress = 0) =>
                       /\ ~out.result.is_hepta_okta
                       /\ out.self.crystals = engine.crystals + 1
                       /\ out.self.exquisite_crystals = engine.exquisite_crystals
    /\ (pc = "run_fast" /\ fast.level < engine.config.target_level) =>
          \A roll \in Rolls, restoration_roll \in Rolls :
             LET out == run_fast_iteration(engine, fast, roll, restoration_roll)
             IN  /\ out.locals.branch = "hepta" =>
                       fast.level = 7 /\ fast.hepta_progress < 5
                 /\ out.locals.branch = "okta" =>
                       fast.level = 8 /\ fast.okta_progress < 10
                 /\ (\/ fast.level \notin {7, 8}
                     \/ /\ fast.level = 7
                        /\ ~engine.config.use_hepta
                        /\ fast.hepta_progress = 0
                     \/ /\ fast.level = 8
                        /\ ~engine.config.use_okta
                        /\ fast.okta_progress = 0) =>
                       /\ out.locals.branch = "normal"
                       /\ out.locals.crystals = fast.crystals + 1
                       /\ out.locals.exquisite_crystals = fast.exquisite_crystals

\* C9 witness: at tier 7 with use_hepta off and no progress, step() made a
\* normal attempt
C9_Witness ==
    /\ last_step # <<>>
    /\ last_step[1].starting_level = 7
    /\ ~last_step[1].is_hepta_okta
    /\ ~engine.config.use_hepta
    /\ engine.hepta_progress = 0
    /\ engine.crystals >= 1

\* C10: the sub-attempt that brings a path's progress to its length L
\* yields, in that same step, exactly one tier increment (7 to 8 for Hepta,
\* 8 to 9 for Okta) and resets the path's progress and pity and the new
\* tier's pity energy to 0; so, with start progress in [0, L), the progress
\* is in [0, L) in every state between steps.
C10_PathCompletion ==
    /\ (pc = "idle" /\ returned = <<>> /\ ~is_complete(engine)) =>
          \A roll \in Rolls, restoration_roll \in Rolls :
             LET out == step(engine, roll, restoration_roll)
                 res == out.result
             IN  /\ (res.is_hepta_okta /\ res.path_name = "Hepta" /\ res.success
                       /\ engine.hepta_progress + 1 = 5) =>
                        /\ engine.level = 7 /\ out.self.level = 8
                        /\ out.self.hepta_progress = 0
                        /\ out.self.hepta_pity = 0
                        /\ DictGet(out.self.anvil_energy, 8, 1) = 0
                 /\ (res.is_hepta_okta /\ res.path_name = "Okta" /\ res.success
                       /\ engine.okta_progress + 1 = 10) =>
                        /\ engine.level = 8 /\ out.self.level = 9
                        /\ out.self.okta_progress = 0
                        /\ out.self.okta_pity = 0
                        /\ DictGet(out.self.anvil_energy, 9, 1) = 0
                 /\ (res.is_hepta_okta /\ res.path_complete) =>
                        out.self.level = engine.level + 1
                 /\ (res.is_hepta_okta /\ ~res.path_complete) =>
                        out.self.level = engine.level
    /\ (pc = "run_fast" /\ fast.level < engine.config.target_level) =>
          \A roll \in Rolls, restoration_roll \in Rolls :
             LET out == run_fast_iteration(engine, fast, roll, restoration_roll)
                 new == out.locals
             IN  /\ (fast_use_hepta(engine, fast)
                       /\ (fast.hepta_pity >= HEPTA_OKTA_ANVIL_PITY
                             \/ roll < HEPTA_OKTA_SUCCESS_RATE)
                       /\ fast.hepta_progress + 1 = 5) =>
                        /\ new.level = 8
                        /\ new.hepta_progress = 0
                        /\ new.hepta_pity = 0
                        /\ DictGet(out.self.anvil_energy, 8, 1) = 0
                 /\ (fast_use_okta(engine, fast) /\ ~fast_use_hepta(engine, fast)
                       /\ (fast.okta_pity >= HEPTA_OKTA_ANVIL_PITY
                             \/ roll < HEPTA_OKTA_SUCCESS_RATE)
                       /\ fast.okta_progress + 1 = 10) =>
                        /\ new.level = 9
                        /\ new.okta_progress = 0
                        /\ new.okta_pity = 0
                        /\ DictGet(out.self.anvil_energy, 9, 1) = 0
    /\ engine.config.start_hepta \in 0..4 =>
          /\ engine.hepta_progress \in 0..4
          /\ pc = "run_fast" => fast.hepta_progress \in 0..4
    /\ engine.config.start_okta \in 0..9 =>
          /\ engine.okta_progress \in 0..9
          /\ pc = "run_fast" => fast.okta_progress \in 0..9

\* C10 witness: the last Okta sub-attempt completed the path: tier 9,
\* progress and pity 0, pity energy of tier 9 reset
C10_Witness ==
    /\ last_step # <<>>
    /\ last_step[1].path_complete
    /\ last_step[1].path_name = "Okta"
    /\ last_step[1].starting_level = 8
    /\ engine.level = 9
    /\ engine.okta_progress = 0
    /\ engine.okta_pity = 0
    /\ engine.anvil_energy[9] = 0

\* the next step() resolves a Hepta/Okta sub-attempt
StepIsSub ==
    /\ pc = "idle"
    /\ returned = <<>>
    /\ ~is_complete(engine)
    /\ _should_use_hepta(engine) \/ _should_use_okta(engine)

\* the attributes of an engine a failed sub-attempt may change
SubFailureFrame == {"hepta_pity", "okta_pity", "exquisite_crystals", "silver", "attempts"}

\* C11: a Hepta/Okta sub-attempt never lowers the tier: after it the tier
\* is unchanged or, on path completion only, exactly one higher; a failed
\* sub-attempt changes nothing but that path's sub-pity and the resource
\* ledger (exquisite crystals, silver, attempts); no recovery scroll and no
\* primary crystal is consumed.
C11_SubAttemptNeverLowers ==
    StepIsSub =>
       \A roll \in Rolls, restoration_roll \in Rolls :
          LET out  == step(engine, roll, restoration_roll)
              hept == _should_use_hepta(engine)
          IN  /\ out.result.is_hepta_okta
              /\ out.self.level =
                    IF out.result.path_complete THEN engine.level + 1
                    ELSE engine.level
              /\ out.self.scrolls = engine.scrolls
              /\ out.self.crystals = engine.crystals
              /\ out.self.exquisite_crystals =
                    engine.exquisite_crystals + HEPTA_OKTA_CRYSTALS_PER_ATTEMPT
              /\ ~out.result.restoration_attempted
              /\ ~out.result.success =>
                    /\ \A f \in DOMAIN engine \ SubFailureFrame :
                          out.self[f] = engine[f]
                    /\ out.self.hepta_pity =
                          engine.hepta_pity + (IF hept THEN 1 ELSE 0)
                    /\ out.self.okta_pity =
                          engine.okta_pity + (IF hept THEN 0 ELSE 1)
                    /\ out.self.attempts = engine.attempts + 1

\* C11 witness: a failed Okta sub-attempt left tier 8, the progress and the
\* primary ledger as they were and raised the Okta sub-pity
C11_Witness ==
    /\ last_step # <<>>
    /\ last_step[1].is_hepta_okta
    /\ last_step[1].path_name = "Okta"
    /\ ~last_step[1].success
    /\ engine.level = 8
    /\ engine.okta_pity = 1
    /\ engine.okta_progress = engine.config.start_okta
    /\ engine.crystals = 0
    /\ engine.scrolls = 0
    /\ engine.exquisite_crystals = HEPTA_OKTA_CRYSTALS_PER_ATTEMPT

(***************************************************************************)
(* Hepta/Okta paths run to completion: an engine that enters a path with   *)
(* any start progress and is stepped until the path completes.             *)
(***************************************************************************)
\* SimulationConfig values at a path's entry tier: <<use flag, start progress>>
PathConfigs ==
    {SimulationConfig(7, 8, 6, o[1], FALSE, o[2], 0, <<1, 3, 5>>, Prices) :
        o \in ({TRUE} \X (0..(HEPTA_SUB_ENHANCEMENTS - 1)))
                \cup ({FALSE} \X (1..(HEPTA_SUB_ENHANCEMENTS - 1)))}
    \cup
    {SimulationConfig(8, 9, 6, FALSE, o[1], 0, o[2], <<1, 3, 5>>, Prices) :
        o \in ({TRUE} \X (0..(OKTA_SUB_ENHANCEMENTS - 1)))
                \cup ({FALSE} \X {1, OKTA_SUB_ENHANCEMENTS - 1})}

InitPath ==
    /\ pc = "idle"
    /\ sim = IdleSim
    /\ \E config \in PathConfigs : engine = reset(config)
    /\ last_step = <<>>
    /\ fast = NoLocals
    /\ returned = <<>>
    /\ draws = <<>>
    /\ raised = "None"
    /\ mc = NoMonteCarlo
    /\ screen = NoScreen
    /\ twin = NoTwin

\* engine.step(), not complete, along a path
PathStep ==
    /\ pc = "idle"
    /\ ~is_complete(engine)
    /\ engine.attempts < MaxSubAttempts
    /\ \E roll \in Rolls, restoration_roll \in Rolls :
          LET out == step(engine, roll, restoration_roll)
          IN  /\ engine' = out.self
              /\ last_step' = <<out.result>>
              /\ draws' = out.draws
    /\ raised' = "None"
    /\ UNCHANGED <<pc, sim, fast, returned, mc, screen, twin>>

NextPath ==
    \/ PathStep
    \/ StepRaises

SpecPath == InitPath /\ [][NextPath]_vars

\* the length of the path entered at a tier
PathLength(level) ==
    IF level = 7 THEN HEPTA_SUB_ENHANCEMENTS ELSE OKTA_SUB_ENHANCEMENTS

\* C12: along a path, sub-pity grows by exactly 1 per failed sub-attempt
\* and is reset to 0 by every successful one; a sub-attempt made with
\* sub-pity >= 17 succeeds without a draw; so sub-pity never exceeds 17, at
\* most 18 sub-attempts separate two progress increments, and a path of
\* length L has completed within 18 x L sub-attempts.
C12_SubPityBound ==
    /\ engine.hepta_pity \in 0..HEPTA_OKTA_ANVIL_PITY
    /\ engine.okta_pity \in 0..HEPTA_OKTA_ANVIL_PITY
    /\ (pc = "idle" /\ ~is_complete(engine)) =>
          LET entry    == engine.config.start_level
              hept     == entry = 7
              pity     == IF hept THEN engine.hepta_pity ELSE engine.okta_pity
              progress == IF hept THEN engine.hepta_progress
                          ELSE engine.okta_progress
              start    == IF hept THEN engine.config.start_hepta
                          ELSE engine.config.start_okta
          IN  /\ engine.level = entry
              /\ engine.attempts <=
                    (HEPTA_OKTA_ANVIL_PITY + 1) * (progress - start) + pity
              /\ \A roll \in Rolls, restoration_roll \in Rolls :
                    LET out == step(engine, roll, restoration_roll)
                        new == IF hept THEN out.self.hepta_pity
                               ELSE out.self.okta_pity
                    IN  /\ out.result.is_hepta_okta
                        /\ new = IF out.result.success THEN 0 ELSE pity + 1
                        /\ out.result.sub_pity = new
                        /\ pity >= HEPTA_OKTA_ANVIL_PITY =>
                              /\ out.result.success
                              /\ out.result.anvil_triggered
                              /\ out.draws = <<>>
    /\ is_complete(engine) =>
          /\ engine.level = engine.config.start_level + 1
          /\ engine.attempts <=
                (HEPTA_OKTA_ANVIL_PITY + 1) * PathLength(engine.config.start_level)

\* C12 witness: the Hepta path entered with no progress completed on its
\* 90th sub-attempt, the last one forced by a sub-pity of 17
C12_Witness ==
    /\ engine.config.start_level = 7
    /\ engine.level = 8
    /\ engine.attempts = (HEPTA_OKTA_ANVIL_PITY + 1) * HEPTA_SUB_ENHANCEMENTS
    /\ last_step # <<>>
    /\ last_step[1].path_complete
    /\ last_step[1].anvil_triggered
    /\ draws = <<>>

\* the attempts simulate_to_target has made, counted by the primary
\* crystals they were charged
AttemptsMade == DictGet(sim.result.materials_used, "pristine_black_crystal", 0)

\* C13: simulate_to_target (target <= 10) never makes more than max_attempts
\* attempts, total_attempts counts every attempt made, and it returns either
\* with the gear at or above the target tier or with total_attempts equal
\* to max_attempts.
C13_SafetyBound ==
    /\ AttemptsMade <= sim.max_attempts
    /\ sim.result.total_attempts = AttemptsMade
    /\ sim.result.total_attempts = sim.result.successes + sim.result.failures
    /\ pc = "returned" =>
          \/ sim.gear.awakening_level >= sim.target_level
          \/ sim.result.total_attempts = sim.max_attempts

\* C13 witness: a run that did not reach its target returned after exactly
\* max_attempts attempts, the largest bound explored
C13_Witness ==
    /\ pc = "returned"
    /\ sim.gear.awakening_level < sim.target_level
    /\ sim.max_attempts = MaxAttempts
    /\ sim.result.total_attempts = MaxAttempts
    /\ AttemptsMade = MaxAttempts

\* simulate_to_target returned by the safety bound, below its target
Truncated ==
    /\ pc = "returned"
    /\ sim.gear.awakening_level < sim.target_level

\* C14: when simulate_to_target stops at the safety bound with the gear
\* below the target tier, the outcome is a distinguished non-convergence
\* outcome and not an ordinary return: an exception leaves the driver, or
\* the returned record differs in kind from the SimulationResult of a run
\* that reached its target.
C14_NonConvergenceDistinguished ==
    Truncated =>
        \/ raised # "None"
        \/ DOMAIN sim.result # DOMAIN SimulationResult(sim.target_level)

\* C15: a call that cannot proceed raises and has no effect.  While the
\* engine's level is at or above its target, step() only raises: is_complete
\* holds, no step changes the engine (only reset() does), and the raising
\* step() leaves the engine and the last StepResult as they were and draws
\* no random number.  attempt_enhancement on a gear at tier 10 raises,
\* leaves the GearState and the ledger unchanged and draws nothing.
C15_RaisesWithoutEffect ==
    [][/\ (pc = "idle" /\ engine.level >= engine.config.target_level) =>
              /\ is_complete(engine)
              /\ engine' = engine \/ engine' = reset(engine.config)
              /\ draws' = <<>>
       /\ raised' = "RuntimeError" =>
              /\ engine.level >= engine.config.target_level
              /\ engine' = engine
              /\ last_step' = last_step
              /\ draws' = <<>>
       /\ raised' = "ValueError" =>
              /\ sim.gear.awakening_level = 10
              /\ sim' = sim
              /\ draws' = <<>>
       /\ (pc = "returned" /\ sim.gear.awakening_level >= 10) =>
              /\ sim' = sim
              /\ raised' = "ValueError"]_vars

\* C15 witness: the engine stepped onto its target tier and the next step()
\* raised, leaving the StepResult of the step before in place
C15_Witness ==
    /\ raised = "RuntimeError"
    /\ engine.level = engine.config.target_level
    /\ engine.attempts > 0
    /\ last_step # <<>>
    /\ last_step[1].success
    /\ last_step[1].ending_level = engine.level
    /\ draws = <<>>

\* C16: a run driver started at or above its target tier fails at once with
\* an already-at-target error: simulate_to_target never returns a result for
\* a starting_state at or above target_level, and run_fast never returns a
\* tuple for a config whose start_level is at or above target_level.
C16_AlreadyAtTargetFails ==
    /\ ~(/\ pc = "returned"
         /\ sim.starting_state.awakening_level >= sim.target_level)
    /\ ~(/\ returned # <<>>
         /\ engine.config.start_level >= engine.config.target_level)

\* configurations whose target tier is missing from the tables
GapTarget == 11

GapConfigs ==
    {SimulationConfig(start, GapTarget, n[1], FALSE, FALSE, 0, 0, n[2], Prices) :
        start \in {9, 10}, n \in NormalOptions}

InitGap ==
    /\ \/ /\ pc = "idle"
          /\ sim = IdleSim
          /\ \E config \in GapConfigs : engine = reset(config)
       \/ /\ pc = "simulate_to_target"
          /\ \E start \in {9, 10}, strategy \in Strategies,
                max_attempts \in {0, MaxAttempts} :
                sim = simulate_to_target(GapTarget, strategy,
                          [awakening_level |-> start, anvil_energy |-> EmptyDict],
                          max_attempts)
          /\ engine = IdleEngine
    /\ last_step = <<>>
    /\ fast = NoLocals
    /\ returned = <<>>
    /\ draws = <<>>
    /\ raised = "None"
    /\ mc = NoMonteCarlo
    /\ screen = NoScreen
    /\ twin = NoTwin

\* an iteration of simulate_to_target whose attempt_enhancement call raises
\* ValueError: the exception leaves simulate_to_target
SimulateRaises ==
    /\ pc = "simulate_to_target"
    /\ sim.gear.awakening_level < sim.target_level
    /\ sim.result.total_attempts < sim.max_attempts
    /\ at_max_level(sim.gear)
    /\ pc' = "raised"
    /\ raised' = "ValueError"
    /\ draws' = <<>>
    /\ UNCHANGED <<sim, engine, last_step, fast, returned, mc, screen, twin>>

NextGap == Next \/ SimulateRaises

SpecGap == InitGap /\ [][NextGap]_vars

\* C17: a tier missing from the rate and threshold tables is a
\* configuration error: no step() and no run_fast iteration is resolved for
\* a target tier outside the tables (with the default rate 0.01 or the
\* default threshold 999), so the engine never leaves the tiers 0..10.
C17_MissingTierFails ==
    /\ last_step # <<>> =>
          last_step[1].starting_level + 1 \in DOMAIN AWAKENING_ENHANCEMENT_RATES
    /\ engine.level <= 10
    /\ fast.level <= 10

\* bounds of the statistics check: results per call, attempts per result
MaxRuns == 5

MaxRunAttempts == 5

\* simulate_to_target with the rng's draws given: every failed attempt is
\* followed by a successful restoration draw
RECURSIVE simulate_with(_, _, _, _)
simulate_with(gear, strategy, result, rolls) ==
    IF rolls = <<>>
    THEN [result EXCEPT !.silver_cost = @ + silver_cost(result.materials_used)]
    ELSE LET out == attempt_enhancement(gear, strategy, Head(rolls), 0)
         IN  simulate_with(out.gear, strategy,
                           record_attempt(result, out.result), Tail(rolls))

\* the arguments of the run_monte_carlo calls whose statistics are explored
StatsStrategy == EnhancementStrategy("always", "never")

StatsStart == [awakening_level |-> 7, anvil_energy |-> EmptyDict]

\* the SimulationResult of a run from StatsStart that failed a - 1 times and
\* then succeeded
ResultOf(a) ==
    simulate_with(StatsStart, StatsStrategy, SimulationResult(StatsStart.awakening_level + 1),
                  [i \in 1..a |-> IF i < a THEN RATE_ONE - 1 ELSE 0])

\* run_monte_carlo after its for loop, with any list of results
InitStats ==
    /\ pc = "run_monte_carlo"
    /\ \E n \in 0..MaxRuns :
          \E runs \in [1..n -> 1..MaxRunAttempts] :
             mc = [run_monte_carlo(StatsStart.awakening_level + 1, StatsStrategy,
                                  n, StatsStart)
                      EXCEPT !.results = [i \in 1..n |-> ResultOf(runs[i])]]
    /\ sim = IdleSim
    /\ engine = IdleEngine
    /\ last_step = <<>>
    /\ fast = NoLocals
    /\ returned = <<>>
    /\ draws = <<>>
    /\ raised = "None"
    /\ screen = NoScreen
    /\ twin = NoTwin

\* every list lookup of the returned dictionary is defined: the percentile
\* reads and the 'worst' reads data[-1]; the six sorted lists have the length
\* of results
lookups_in_range(results) ==
    LET data == mc_attempts(results)
    IN  /\ \A p \in {50, 90, 99} : index_in_range(data, percentile_idx(data, p))
        /\ index_in_range(data, -1)

\* the end of run_monte_carlo: the statistics are computed and returned
MonteCarloReturn ==
    /\ pc = "run_monte_carlo"
    /\ Len(mc.results) = mc.num_simulations
    /\ lookups_in_range(mc.results)
    /\ mc' = [mc EXCEPT !.stats =
                 <<run_monte_carlo_stats(mc.num_simulations, mc.target_level,
                                         mc.strategy, mc.results)>>]
    /\ pc' = "run_monte_carlo_returned"
    /\ draws' = <<>>
    /\ raised' = "None"
    /\ UNCHANGED <<sim, engine, last_step, fast, returned, screen, twin>>

\* the end of run_monte_carlo when a lookup is out of range (with no result
\* percentile reads data[-1] of an empty list): IndexError
MonteCarloRaises ==
    /\ pc = "run_monte_carlo"
    /\ Len(mc.results) = mc.num_simulations
    /\ ~lookups_in_range(mc.results)
    /\ pc' = "raised"
    /\ raised' = "IndexError"
    /\ draws' = <<>>
    /\ UNCHANGED <<sim, engine, last_step, fast, returned, mc, screen, twin>>

NextStats == MonteCarloReturn \/ MonteCarloRaises

SpecStats == InitStats /\ [][NextStats]_vars

\* x is the element at index idx (from 0) of the values in ascending order
IsRank(values, idx, x) ==
    /\ \E i \in DOMAIN values : values[i] = x
    /\ Cardinality({i \in DOMAIN values : values[i] < x}) <= idx
    /\ idx < Cardinality({i \in DOMAIN values : values[i] <= x})

\* index min(floor(n * p), n - 1), p in percent
RankIndex(n, p) == Min((n * p) \div 100, n - 1)

\* C18: each percentile run_monte_carlo returns is the element at index
\* min(floor(n * p), n - 1) of the values in ascending order and worst is
\* the largest value; for the values 1..5 p50 is 3 and p90 is 5; the TUI's
\* indices n // 2 and int(n * 0.9) are within range and select the same
\* elements.
C18_Percentiles ==
    pc = "run_monte_carlo_returned" =>
        LET stats    == mc.stats[1]
            n        == Len(mc.results)
            attempts == [i \in 1..n |-> mc.results[i].total_attempts]
            silver   == [i \in 1..n |-> mc.results[i].silver_cost]
            by_silver == mc_silver_costs(mc.results)
        IN  /\ n >= 1
            /\ IsRank(attempts, RankIndex(n, 50), stats.attempts.p50)
            /\ IsRank(attempts, RankIndex(n, 90), stats.attempts.p90)
            /\ IsRank(attempts, RankIndex(n, 99), stats.attempts.p99)
            /\ IsRank(attempts, n - 1, stats.attempts.worst)
            /\ IsRank(silver, RankIndex(n, 50), stats.silver_cost.p50)
            /\ IsRank(silver, RankIndex(n, 90), stats.silver_cost.p90)
            /\ IsRank(silver, RankIndex(n, 99), stats.silver_cost.p99)
            /\ IsRank(silver, n - 1, stats.silver_cost.worst)
            /\ mc_attempts(mc.results) = <<1, 2, 3, 4, 5>> =>
                  stats.attempts.p50 = 3 /\ stats.attempts.p90 = 5
            /\ tui_p50_idx(n) \in 0..(n - 1)
            /\ tui_p90_idx(n) \in 0..(n - 1)
            /\ by_silver[tui_p50_idx(n) + 1] = stats.silver_cost.p50
            /\ by_silver[tui_p90_idx(n) + 1] = stats.silver_cost.p90
            /\ by_silver[n] = stats.silver_cost.worst

\* C18 witness: five results with 5, 1, 4, 2 and 3 attempts were summarised:
\* p50 is 3, p90, p99 and worst are 5
C18_Witness ==
    /\ pc = "run_monte_carlo_returned"
    /\ [i \in 1..Len(mc.results) |-> mc.results[i].total_attempts]
          = <<5, 1, 4, 2, 3>>
    /\ mc.stats[1].attempts.p50 = 3
    /\ mc.stats[1].attempts.p90 = 5
    /\ mc.stats[1].attempts.p99 = 5
    /\ mc.stats[1].attempts.worst = 5

\* the metrics run_monte_carlo tracks across its results
TrackedMetrics ==
    {"attempts", "silver_cost", "pristine_black_crystals",
     "restoration_scrolls", "level_drops", "anvil_triggers"}

\* C19: the statistics record run_monte_carlo returns holds, for every
\* tracked metric, all five entries: the mean (key "average"), p50, p90, p99
\* and worst.
C19_AllFiveEntries ==
    pc = "run_monte_carlo_returned" =>
        \A metric \in TrackedMetrics :
            /\ metric \in DOMAIN mc.stats[1]
            /\ DOMAIN mc.stats[1][metric] = {"average", "p50", "p90", "p99", "worst"}

\* the default of simulate_to_target's max_attempts, which run_monte_carlo
\* leaves in place
DEFAULT_MAX_ATTEMPTS == 100000

\* bound on num_simulations in the run_monte_carlo calls explored
MaxSimulations == 2

\* <<starting tier, target tier>> of the run_monte_carlo calls explored
MonteCarloPairs == {<<0, 1>>, <<2, 3>>, <<3, 5>>, <<7, 8>>, <<9, 9>>}

InitMonteCarlo ==
    /\ pc = "run_monte_carlo"
    /\ \E p \in MonteCarloPairs, strategy \in Strategies,
          num_simulations \in 0..MaxSimulations :
          \E energy \in StartEnergies(p[1]) :
             mc = run_monte_carlo(p[2], strategy, num_simulations,
                      [awakening_level |-> p[1], anvil_energy |-> energy])
    /\ sim = IdleSim
    /\ engine = IdleEngine
    /\ last_step = <<>>
    /\ fast = NoLocals
    /\ returned = <<>>
    /\ draws = <<>>
    /\ raised = "None"
    /\ screen = NoScreen
    /\ twin = NoTwin

\* an iteration of run_monte_carlo's for loop calls simulate_to_target with
\* the caller's starting_state object
MonteCarloSimulate ==
    /\ pc = "run_monte_carlo"
    /\ Len(mc.results) < mc.num_simulations
    /\ sim' = simulate_to_target(mc.target_level, mc.strategy,
                                 mc.starting_state, DEFAULT_MAX_ATTEMPTS)
    /\ pc' = "simulate_to_target"
    /\ draws' = <<>>
    /\ raised' = "None"
    /\ UNCHANGED <<engine, last_step, fast, returned, mc, screen, twin>>

\* an iteration of simulate_to_target's loop inside run_monte_carlo, for the
\* first MaxAttempts attempts of a run
MonteCarloAttempt ==
    /\ sim.result.total_attempts < MaxAttempts
    /\ SimulateAttempt

\* simulate_to_target has returned to run_monte_carlo: results.append(result).
\* The object passed down is the caller's, so what the call has left in it
\* is what run_monte_carlo's starting_state holds from then on.
MonteCarloCollect ==
    /\ pc = "returned"
    /\ mc' = [mc EXCEPT !.results = Append(@, sim.result),
                        !.starting_state = sim.starting_state]
    /\ pc' = "run_monte_carlo"
    /\ draws' = <<>>
    /\ UNCHANGED <<sim, engine, last_step, fast, returned, raised, screen, twin>>

NextMonteCarlo ==
    \/ MonteCarloSimulate
    \/ MonteCarloAttempt
    \/ SimulateReturn
    \/ MonteCarloCollect
    \/ MonteCarloReturn
    \/ MonteCarloRaises

SpecMonteCarlo == InitMonteCarlo /\ [][NextMonteCarlo]_vars

\* C20: run_monte_carlo and simulate_to_target never change the caller's
\* starting_state: no step changes it, every run works on a private copy
\* (the local gear never names the caller's object) and every run starts
\* from the tier and pity energy the caller passed in.
C20_StartingStateUntouched ==
    [][/\ mc'.starting_state = mc.starting_state
       /\ pc = "simulate_to_target" => sim'.starting_state = sim.starting_state
       /\ pc' = "simulate_to_target" =>
              /\ sim'.gear_ref = "copy"
              /\ sim'.starting_state = mc.starting_state
       /\ (pc = "run_monte_carlo" /\ pc' = "simulate_to_target") =>
              /\ sim'.gear.awakening_level = mc.starting_state.awakening_level
              /\ sim'.gear.anvil_energy = mc.starting_state.anvil_energy
              /\ sim'.result = SimulationResult(mc.target_level)]_vars

\* C20 witness: run_monte_carlo has returned after two runs from tier 3 to
\* tier 5; both runs made attempts and raised their own gear to tier 5, and
\* the caller's starting_state is still at tier 3 without pity energy
C20_Witness ==
    /\ pc = "run_monte_carlo_returned"
    /\ Len(mc.results) = 2
    /\ mc.results[1].total_attempts >= 2
    /\ mc.results[2].total_attempts >= 2
    /\ sim.gear.awakening_level = 5
    /\ sim.gear.anvil_energy # EmptyDict
    /\ mc.starting_state = [awakening_level |-> 3, anvil_energy |-> EmptyDict]
    /\ sim.starting_state = mc.starting_state

\* C21: the silver of a run is the sum over the resource types of the count
\* consumed times the unit price.  In every state of the engine silver is
\* crystals, the three Valks counters, restoration attempts (scrolls / 200)
\* and exquisite crystals, each times its price; and simulate_to_target
\* returns silver_cost as the sum over the materials used of the amount
\* times get_effective_price.
C21_SilverIsSumOfCosts ==
    /\ LET prices == engine.config.prices
       IN  /\ engine.scrolls % RESTORATION_PER_ATTEMPT = 0
           /\ engine.silver =
                 engine.crystals * prices.crystal_price
                 + engine.valks_10_used * prices.valks_10_price
                 + engine.valks_50_used * prices.valks_50_price
                 + engine.valks_100_used * prices.valks_100_price
                 + (engine.scrolls \div RESTORATION_PER_ATTEMPT)
                       * restoration_attempt_cost(prices)
                 + engine.exquisite_crystals * _exquisite_cost(prices)
    /\ pc = "returned" =>
          LET used      == sim.result.materials_used
              cost(m)   == DictGet(used, m, 0) * get_effective_price(m)
          IN  /\ DOMAIN used \subseteq
                    {"pristine_black_crystal", "restoration_scroll",
                     "valks_advice_10", "valks_advice_50"}
              /\ sim.result.silver_cost =
                    cost("pristine_black_crystal") + cost("restoration_scroll")
                    + cost("valks_advice_10") + cost("valks_advice_50")

\* C21 witness: an engine that has paid for crystals, a Valks, a recovery
\* attempt and exquisite crystals
C21_Witness ==
    /\ pc = "idle"
    /\ engine.crystals >= 1
    /\ engine.valks_100_used >= 1
    /\ engine.scrolls >= RESTORATION_PER_ATTEMPT
    /\ engine.exquisite_crystals >= HEPTA_OKTA_CRYSTALS_PER_ATTEMPT
    /\ engine.silver > 0

(***************************************************************************)
(* The Monte Carlo strategy screens of the TUI (src/src/tui.py):           *)
(* HeptaOktaStrategyScreen and RestorationStrategyScreen.  pc is the       *)
(* position of the _run_analysis task: "await_start", "await_batch" and    *)
(* "await_strategy" are its three asyncio.sleep calls, where the task is   *)
(* suspended and the event loop runs; "for_strategy", "for_sims" and       *)
(* "run_fast" are positions of the running task; "analysis_done" is its    *)
(* end.  engine and fast are the task's engine and run_fast's locals.      *)
(***************************************************************************)
\* runs per strategy, and run_fast iterations followed per run
ScreenSimulations == 6

ScreenRunAttempts == 2

\* batch_size of _run_analysis
BATCH_SIZE == 5

\* the engine configs _run_analysis goes through, in order
analysis_strategies(scr) ==
    LET c == scr.config
    IN  IF scr.kind = "hepta_okta"
        THEN [k \in 1..4 |->
                 SimulationConfig(c.start_level, c.target_level, 6,
                                  k \in {1, 2}, k \in {1, 3},
                                  c.start_hepta, c.start_okta, c.valks_from,
                                  c.prices)]
        ELSE [k \in 1..(IF c.target_level > 4 THEN c.target_level - 4 ELSE 0) |->
                 SimulationConfig(c.start_level, c.target_level, k + 3,
                                  FALSE, FALSE, c.start_hepta, c.start_okta,
                                  c.valks_from, c.prices)]

\* sorted(sim_results, key=itemgetter(2)): stable, by silver
RECURSIVE sorted_by_silver(_)
sorted_by_silver(sim_results) ==
    IF sim_results = <<>> THEN <<>>
    ELSE LET x    == Head(sim_results)
             rest == sorted_by_silver(Tail(sim_results))
         IN  SelectSeq(rest, LAMBDA y : y[3] < x[3]) \o <<x>> \o
             SelectSeq(rest, LAMBDA y : y[3] >= x[3])

\* the screen after __init__ and on_mount: running, the task created
StrategyScreen(kind, config, num_simulations) ==
    [kind |-> kind, config |-> config, num_simulations |-> num_simulations,
     running |-> TRUE, _task |-> "pending", must_cancel |-> FALSE,
     cancelling |-> FALSE,
     strategy |-> 1, i |-> 0, sim_results |-> <<>>, results |-> EmptyDict,
     status |-> "Status: Ready"]

task_suspended_anywhere(position) == TRUE

\* the task is not executing: the event loop has control
task_suspended(position) ==
    position \in {"mounted", "await_start", "await_batch", "await_strategy",
                  "analysis_done"}

\* the configs of the screens explored
ScreenConfigs ==
    {[start_level |-> p[1], target_level |-> p[2], start_hepta |-> 0,
      start_okta |-> 0, valks_from |-> <<0, 0, 0>>, prices |-> Prices] :
        p \in {<<0, 1>>, <<5, 6>>, <<3, 4>>}}

InitScreen ==
    /\ pc = "mounted"
    /\ \E kind \in {"hepta_okta", "restoration"}, config \in ScreenConfigs,
          num_simulations \in {0, 1, ScreenSimulations} :
          /\ kind = "hepta_okta" => num_simulations <= 1
          /\ screen = StrategyScreen(kind, config, num_simulations)
    /\ sim = IdleSim
    /\ engine = IdleEngine
    /\ last_step = <<>>
    /\ fast = NoLocals
    /\ returned = <<>>
    /\ draws = <<>>
    /\ raised = "None"
    /\ mc = NoMonteCarlo
    /\ twin = NoTwin

\* the end of _run_analysis after its loops: status, finally
analysis_end(scr) ==
    [scr EXCEPT !.status = "Status: Complete!", !.running = FALSE,
                !._task = "done"]

\* the event loop runs the task for the first time: up to the first sleep;
\* a task cancelled before its first step never runs its body
TaskStart ==
    /\ pc = "mounted"
    /\ screen._task = "pending"
    /\ IF screen.must_cancel
       THEN /\ screen' = [screen EXCEPT !._task = "done", !.must_cancel = FALSE]
            /\ pc' = "analysis_done"
            /\ raised' = "CancelledError"
       ELSE /\ screen' = [screen EXCEPT !._task = "suspended"]
            /\ pc' = "await_start"
            /\ raised' = "None"
    /\ draws' = <<>>
    /\ UNCHANGED <<sim, engine, last_step, fast, returned, mc, twin>>

\* the event loop resumes the task at its sleep: CancelledError if the task
\* was cancelled (except: pass, finally: running = False), else it goes on
TaskResume ==
    /\ pc \in {"await_start", "await_batch", "await_strategy"}
    /\ screen._task = "suspended"
    /\ IF screen.must_cancel
       THEN /\ screen' = [screen EXCEPT !._task = "done", !.must_cancel = FALSE,
                                        !.running = FALSE]
            /\ pc' = "analysis_done"
            /\ raised' = "CancelledError"
       ELSE /\ screen' = [screen EXCEPT
                             !._task = "running",
                             !.strategy = IF pc = "await_strategy" THEN @ + 1 ELSE @]
            /\ pc' = IF pc = "await_batch" THEN "for_sims" ELSE "for_strategy"
            /\ raised' = "None"
    /\ draws' = <<>>
    /\ UNCHANGED <<sim, engine, last_step, fast, returned, mc, twin>>

\* the head of the loop over the strategies
AnalysisStrategy ==
    /\ pc = "for_strategy"
    /\ IF screen.strategy <= Len(analysis_strategies(screen)) /\ screen.running
       THEN /\ screen' = [screen EXCEPT !.status = "Status: Testing",
                                        !.sim_results = <<>>, !.i = 0]
            /\ engine' = reset(analysis_strategies(screen)[screen.strategy])
            /\ pc' = "for_sims"
       ELSE /\ screen' = analysis_end(screen)
            /\ pc' = "analysis_done"
            /\ UNCHANGED engine
    /\ draws' = <<>>
    /\ UNCHANGED <<sim, last_step, fast, returned, raised, mc, twin>>

\* the head of the loop over the runs of a strategy, and what follows the
\* loop: the summary of the strategy and the sleep after it
AnalysisRun ==
    /\ pc = "for_sims"
    /\ IF screen.i < screen.num_simulations /\ screen.running
       THEN /\ pc' = "run_fast"
            /\ fast' = run_fast_locals(engine)
            /\ UNCHANGED screen
       ELSE /\ fast' = fast
            /\ IF ~screen.running
               THEN /\ screen' = analysis_end(screen)
                    /\ pc' = "analysis_done"
               ELSE IF screen.sim_results = <<>>
               THEN /\ screen' = [screen EXCEPT !.strategy = @ + 1]
                    /\ pc' = "for_strategy"
               ELSE LET by_silver == sorted_by_silver(screen.sim_results)
                        n         == Len(by_silver)
                    IN  /\ screen' =
                              [screen EXCEPT
                                  !.results = DictSet(@, screen.strategy,
                                      [p50 |-> by_silver[tui_p50_idx(n) + 1],
                                       p90 |-> by_silver[tui_p90_idx(n) + 1],
                                       worst |-> by_silver[n]]),
                                  !._task = "suspended"]
                        /\ pc' = "await_strategy"
    /\ draws' = <<>>
    /\ UNCHANGED <<sim, engine, last_step, returned, raised, mc, twin>>

\* an iteration of run_fast's loop inside the task, for the first
\* ScreenRunAttempts iterations of a run
ScreenRunIteration ==
    /\ screen.kind # "None"
    /\ fast_iterations(fast) < ScreenRunAttempts
    /\ RunFastIteration

\* run_fast returns to _run_analysis: the tuple is appended, the engine is
\* reset, and after every BATCH_SIZE runs the task sleeps
AnalysisRunReturn ==
    /\ screen.kind # "None"
    /\ pc = "run_fast"
    /\ ~(fast.level < engine.config.target_level)
    /\ LET result == <<fast.crystals, fast.scrolls, fast.silver,
                       fast.exquisite_crystals>>
           kept   == IF screen.kind = "restoration"
                     THEN <<result[1], result[2], result[3]>> ELSE result
           yield  == (screen.i + 1) % BATCH_SIZE = 0
       IN  /\ returned' = result
           /\ screen' = [screen EXCEPT
                            !.sim_results = Append(@, kept),
                            !.i = @ + 1,
                            !.status = IF yield THEN "Status: Testing %" ELSE @,
                            !._task = IF yield THEN "suspended" ELSE @]
           /\ pc' = IF yield THEN "await_batch" ELSE "for_sims"
    /\ engine' = reset(engine.config)
    /\ fast' = NoLocals
    /\ draws' = <<>>
    /\ UNCHANGED <<sim, last_step, raised, mc, twin>>

\* _cancel_task, called by on_unmount, action_back and action_quit while the
\* event loop has control: up to its await of the task
CancelTask ==
    /\ screen.kind # "None"
    /\ task_suspended(pc)
    /\ ~screen.cancelling
    /\ screen._task # "None"
    /\ IF screen._task # "done"
       THEN screen' = [screen EXCEPT !.running = FALSE, !.must_cancel = TRUE,
                                     !.cancelling = TRUE]
       ELSE screen' = [screen EXCEPT !.running = FALSE, !._task = "None"]
    /\ UNCHANGED <<pc, sim, engine, last_step, fast, returned, draws, raised, mc, twin>>

\* _cancel_task after its await: the task is done, self._task = None
CancelTaskFinish ==
    /\ screen.kind # "None"
    /\ screen.cancelling
    /\ screen._task = "done"
    /\ screen' = [screen EXCEPT !.cancelling = FALSE, !._task = "None"]
    /\ UNCHANGED <<pc, sim, engine, last_step, fast, returned, draws, raised, mc, twin>>

NextScreen ==
    \/ TaskStart
    \/ TaskResume
    \/ AnalysisStrategy
    \/ AnalysisRun
    \/ ScreenRunIteration
    \/ AnalysisRunReturn
    \/ CancelTask
    \/ CancelTaskFinish

SpecScreen == InitScreen /\ [][NextScreen]_vars

\* C22: in the strategy screens cancellation takes effect only between
\* runs.  While a run_fast call is in progress the screen does not change
\* (running, the cancel request, the task and its results stay as they
\* are), the task is never ended or resumed with CancelledError inside a
\* run, and sim_results only ever grows by the ledger of a run that has run
\* to completion (all four totals, or the first three in the restoration
\* screen).
C22_CancelOnlyBetweenRuns ==
    [][/\ (pc = "run_fast" /\ pc' = "run_fast") => screen' = screen
       /\ pc = "run_fast" =>
              /\ screen'.running = screen.running
              /\ screen'.must_cancel = screen.must_cancel
              /\ screen'.results = screen.results
              /\ raised' # "CancelledError"
              /\ pc' # "analysis_done"
       /\ screen'.sim_results # screen.sim_results =>
              \/ screen'.sim_results = <<>>
              \/ /\ pc = "run_fast"
                 /\ fast.level >= engine.config.target_level
                 /\ fast_iterations(fast) >=
                        engine.config.target_level - engine.config.start_level
                 /\ Len(screen'.sim_results) = Len(screen.sim_results) + 1
                 /\ SubSeq(screen'.sim_results, 1, Len(screen.sim_results))
                        = screen.sim_results
                 /\ LET kept == screen'.sim_results[Len(screen'.sim_results)]
                    IN  /\ kept[1] = fast.crystals
                        /\ kept[2] = fast.scrolls
                        /\ kept[3] = fast.silver
                        /\ screen.kind = "hepta_okta" =>
                               kept[4] = fast.exquisite_crystals]_vars

\* C22 witness: the task was cancelled at the sleep that follows a batch of
\* BATCH_SIZE completed runs, some of which took more than one attempt
C22_Witness ==
    /\ pc = "analysis_done"
    /\ raised = "CancelledError"
    /\ ~screen.running
    /\ Len(screen.sim_results) = BATCH_SIZE
    /\ \E k \in 1..BATCH_SIZE : screen.sim_results[k][1] > 1

\* C23: a strategy analysis cancelled part-way hands back the runs completed
\* so far with an explicit cancelled indicator: once the cancelled task has
\* ended, the runs of the strategy in progress are in the results and the
\* status is neither a progress text nor the text of a normal completion.
C23_CancelReturnsCompletedRuns ==
    (/\ screen.kind # "None"
     /\ pc = "analysis_done"
     /\ raised = "CancelledError"
     /\ screen.sim_results # <<>>) =>
        /\ screen.sim_results # <<>> => screen.strategy \in DOMAIN screen.results
        /\ screen.status \notin {"Status: Ready", "Status: Testing",
                                 "Status: Testing %", "Status: Complete!"}

(***************************************************************************)
(* Seeded generators (engine.py and simulator.py, __init__): every engine  *)
(* and every simulator owns a random.Random(seed); the draws of a          *)
(* generator are a function of its seed and of the number of draws already *)
(* taken from it.                                                          *)
(***************************************************************************)
\* the seeds the engines are constructed with
MaxSeed == 26

\* the resets of an engine
MaxResets == 1

\* random.Random(seed): a new generator, determined by the seed alone
Random(seed) ==
    [seed |-> seed, position |-> 0]

\* the first 40 values of random.Random(seed).random() for the seeds 0..31,
\* each cut to a multiple of 1/RATE_ONE: draw n of seed s is
\* floor(10000 * u), so that u < rate holds exactly when the entry is below
\* the rate in units of 1/RATE_ONE
random_stream ==
    <<
      <<8444, 7579, 4205, 2589, 5112, 4049, 7837, 3033, 4765, 5833, 9081,
        5046, 2818, 7558, 6183, 2505, 9097, 9827, 8102, 9021, 3101, 7298,
        8988, 6839, 4721, 1007, 4341, 6108, 9130, 9666, 4770, 8653, 2604,
        8050, 5486, 140, 7197, 3988, 8248, 6681>>,
      <<1343, 8474, 7637, 2550, 4954, 4494, 6515, 7887, 938, 283, 8357, 4327,
        7622, 21, 4453, 7215, 2287, 9452, 9014, 305, 254, 5414, 9391, 3812,
        2165, 4221, 290, 2216, 4378, 4958, 2330, 2308, 2187, 4596, 2897, 214,
        8375, 5564, 6422, 1859>>,
      <<9560, 9478, 565, 848, 8354, 7359, 6697, 3081, 6059, 6068, 5812, 1583,
        4306, 3935, 7230, 9948, 9493, 5441, 4448, 2682, 359, 274, 4648, 3184,
        3800, 8917, 5257, 5605, 2361, 238, 3251, 1366, 5102, 9986, 6744, 1818,
        8935, 7967, 7344, 9065>>,
      <<2379, 5442, 3699, 6039, 6257, 655, 131, 8374, 2593, 2343, 9956, 4702,
        8364, 4763, 6390, 1506, 6348, 8680, 5231, 7412, 6714, 640, 7582, 5910,
        3012, 310, 8655, 4727, 7188, 8788, 7141, 9210, 3949, 8009, 4446, 9355,
        8788, 974, 1359, 2169>>,
      <<2360, 1031, 3960, 1549, 665, 4015, 9179, 8004, 7651, 2219, 5366, 2766,
        1726, 1061, 2144, 9274, 8289, 8066, 8004, 1934, 3098, 6269, 7318,
        8546, 8800, 867, 6058, 6717, 5059, 1777, 4735, 893, 9345, 8654, 5476,
        3002, 9088, 5723, 8823, 8480>>,
      <<6229, 7417, 7951, 9424, 7398, 9223, 290, 4656, 9433, 6489, 9009, 1132,
        4690, 2465, 5437, 5739, 131, 2167, 2794, 9163, 7657, 1596, 7971, 1387,
        6174, 1266, 17, 8714, 2094, 2154, 9824, 8724, 2893, 9614, 5392, 6778,
        2047, 9409, 6906, 9665>>,
      <<7933, 8219, 4850, 2616, 4, 6628, 4702, 7597, 3731, 7701, 2726, 8019,
        7298, 4140, 5383, 6820, 1929, 5536, 8051, 2655, 8033, 6856, 8442,
        3355, 931, 8002, 8047, 4452, 937, 1971, 6349, 2911, 9513, 5885, 2008,
        6554, 3603, 9327, 9095, 5146>>,
      <<3238, 1508, 6509, 724, 5358, 3656, 579, 5074, 374, 4336, 698, 907,
        4245, 8268, 1238, 2232, 6274, 9477, 5771, 3966, 9762, 465, 8584, 2896,
        1442, 1177, 3084, 8161, 1807, 5816, 6389, 3723, 5477, 627, 596, 2059,
        6803, 4275, 3141, 5855>>,
      <<2267, 9622, 1263, 7048, 851, 2474, 9991, 2093, 6418, 4591, 4531, 4949,
        1922, 8305, 895, 2341, 199, 2667, 4076, 9020, 3790, 1137, 2583, 9916,
        630, 6201, 3772, 6608, 3384, 6913, 4975, 6497, 9013, 5815, 1421, 643,
        9460, 4886, 1938, 9460>>,
      <<4630, 3733, 1385, 8665, 64, 5027, 8982, 808, 5542, 6166, 408, 3790,
        7034, 4520, 7250, 1571, 2380, 1109, 5062, 9238, 5904, 7742, 3836,
        7460, 1016, 2911, 6742, 7257, 4217, 877, 2667, 2098, 2811, 8095, 1994,
        8863, 8793, 547, 3788, 4917>>,
      <<5714, 4288, 5780, 2060, 8133, 8235, 6534, 1602, 5206, 3277, 2499,
        9528, 9965, 445, 8601, 6031, 3816, 2836, 6749, 4568, 6858, 6618, 1329,
        7678, 9824, 9693, 6133, 442, 40, 1339, 9410, 3028, 3661, 8981, 3143,
        5489, 4360, 649, 5845, 8440>>,
      <<4523, 5597, 9242, 4656, 5078, 5873, 1846, 5119, 6298, 7929, 941, 3034,
        906, 8096, 6934, 418, 9821, 9647, 6539, 6155, 1574, 150, 5283, 595,
        1902, 2419, 300, 4639, 4405, 8424, 5191, 6402, 4997, 6624, 4573, 2781,
        9976, 9956, 8402, 7078>>,
      <<4745, 6574, 6664, 1426, 108, 3747, 2740, 8103, 6905, 6014, 5581, 6613,
        1453, 4400, 1622, 9059, 588, 8188, 746, 6869, 3369, 4046, 8424, 186,
        607, 9150, 5089, 909, 9871, 9467, 1125, 4232, 1350, 3125, 6214, 1635,
        6968, 513, 1712, 8156>>,
      <<2590, 6852, 6840, 8493, 1857, 2305, 1471, 2251, 7340, 1302, 5313,
        2139, 2946, 4315, 8376, 6084, 144, 2758, 1467, 8712, 8097, 8060, 8263,
        7447, 9493, 7937, 2567, 8499, 4867, 7550, 5641, 4295, 3642, 4298,
        3137, 1173, 8196, 7982, 9856, 6909>>,
      <<1068, 7025, 6520, 9403, 2711, 2557, 7340, 6584, 3029, 6842, 3966,
        7775, 1183, 2232, 9014, 3580, 2604, 8042, 6316, 1497, 5513, 6639,
        1649, 6516, 1230, 3370, 832, 2044, 9779, 4036, 9904, 4386, 6075, 8725,
        6868, 1115, 5890, 6337, 1811, 946>>,
      <<9652, 116, 7359, 1580, 9863, 168, 8794, 6813, 8573, 9998, 2397, 3380,
        7081, 2805, 2633, 2286, 8578, 8745, 7976, 2233, 9248, 5113, 2313,
        4555, 4198, 789, 5646, 3599, 5696, 9302, 6455, 4051, 8635, 9951, 4902,
        9450, 187, 1403, 1721, 9380>>,
      <<3615, 4804, 4169, 4467, 4095, 6577, 2588, 6349, 101, 3020, 3350, 1419,
        7434, 3101, 7892, 9562, 2535, 8935, 8076, 6674, 273, 4567, 6267, 2962,
        2243, 3097, 2582, 7878, 3477, 4231, 6430, 9483, 2930, 440, 9738, 8325,
        7903, 5233, 2348, 1545>>,
      <<5219, 8066, 9604, 2896, 7661, 7042, 6613, 1101, 269, 3841, 7463, 2523,
        5016, 3174, 8463, 9451, 4015, 9984, 621, 8126, 8753, 1509, 7055, 5588,
        9551, 2100, 5399, 8824, 6387, 3091, 818, 9397, 4740, 9963, 1416, 8122,
        8133, 9199, 178, 3721>>,
      <<1812, 6614, 3345, 1979, 4895, 4940, 4797, 4583, 2645, 2538, 6918,
        3244, 6748, 7871, 8659, 9440, 2345, 2373, 7348, 5755, 2018, 6776,
        8732, 8357, 2160, 2989, 66, 9756, 2204, 7271, 5378, 5934, 5267, 8255,
        5999, 3031, 1148, 4774, 9229, 1452>>,
      <<6771, 7849, 5204, 5114, 3935, 9968, 2893, 1482, 2610, 2604, 3273,
        2679, 1076, 3254, 3110, 5692, 2016, 707, 2025, 5424, 3885, 7334, 8030,
        4144, 993, 7279, 7556, 3960, 6582, 2990, 9148, 8338, 7919, 9539, 2328,
        5452, 7313, 8014, 3902, 1385>>,
      <<9056, 6862, 7665, 9046, 2598, 6357, 9049, 8721, 5729, 1693, 4115,
        9938, 1032, 3191, 9500, 4494, 2086, 3169, 9086, 3355, 4273, 6276,
        8055, 4921, 814, 5732, 350, 945, 1903, 6934, 2834, 6902, 1633, 1176,
        233, 7057, 8591, 2196, 2375, 129>>,
      <<1649, 6897, 6349, 4791, 2160, 7926, 8078, 5124, 5050, 2360, 31, 3710,
        5853, 692, 7937, 2322, 2326, 423, 9975, 7386, 8750, 6158, 340, 3289,
        4975, 1158, 9519, 3684, 1548, 8175, 1248, 9279, 4531, 5520, 3429,
        4847, 1869, 371, 8658, 2348>>,
      <<9582, 1403, 236, 9986, 1842, 1205, 6514, 3456, 8895, 2317, 9594, 3194,
        6011, 9320, 6852, 9238, 7081, 484, 8813, 5895, 3106, 1901, 8498, 5828,
        9379, 7739, 9611, 5663, 6983, 6123, 2584, 9567, 3124, 7811, 9546,
        6508, 1422, 8252, 6675, 1850>>,
      <<9248, 9486, 8924, 835, 5920, 4237, 5300, 1303, 1919, 4445, 2210, 4550,
        247, 857, 7100, 4212, 5126, 7342, 3589, 575, 7831, 5891, 6579, 6209,
        9707, 3627, 7597, 3686, 5720, 6605, 3143, 857, 4740, 7179, 5906, 4474,
        6423, 1820, 1785, 3234>>,
      <<7123, 8397, 1825, 9982, 1940, 6708, 917, 7577, 1513, 7065, 7244, 7659,
        4413, 8657, 9879, 1155, 5168, 9581, 7391, 4442, 3046, 9530, 851, 7605,
        8432, 1577, 3268, 3053, 5420, 3669, 8936, 9246, 3161, 8947, 696, 969,
        6651, 7990, 8191, 9919>>,
      <<3769, 9267, 8434, 2140, 8717, 6364, 423, 9529, 2556, 3059, 4240, 5885,
        1243, 6866, 8322, 5123, 7944, 6249, 8248, 1809, 3586, 4693, 1039,
        9731, 6360, 982, 5827, 4144, 1893, 1609, 4607, 703, 5630, 5149, 1270,
        8751, 405, 1720, 8171, 2208>>,
      <<7472, 2027, 2051, 6007, 567, 7763, 7644, 417, 6833, 5027, 6354, 9537,
        9867, 4091, 8441, 7863, 9717, 287, 9378, 2222, 1294, 5974, 8388, 9566,
        3642, 8276, 307, 9685, 2934, 5435, 1243, 438, 76, 6001, 5611, 8159,
        8511, 4234, 8473, 2007>>,
      <<6484, 7013, 9570, 1964, 653, 8242, 3330, 3723, 8148, 1833, 9096, 4911,
        713, 9178, 5729, 787, 8385, 7748, 7401, 6575, 9927, 121, 9744, 6427,
        2529, 6124, 3378, 6503, 7042, 5242, 987, 3919, 3020, 7494, 9312, 7756,
        5304, 1701, 7075, 2650>>,
      <<1129, 1308, 5972, 1780, 1324, 4640, 4175, 2133, 3916, 8422, 1311,
        1875, 277, 2398, 949, 9847, 3145, 9890, 1294, 9040, 5064, 6905, 6622,
        2706, 2325, 6794, 1314, 132, 7710, 6330, 2601, 5203, 9099, 2789, 1238,
        4172, 1675, 3681, 326, 7637>>,
      <<5481, 3458, 8448, 2885, 5103, 3438, 4154, 9738, 1037, 4447, 2248,
        3495, 9987, 3292, 6077, 4196, 7304, 4472, 1704, 4339, 4080, 7927,
        5626, 1964, 6738, 2983, 5118, 2198, 4107, 7861, 5157, 7523, 7567,
        5870, 6451, 3972, 6179, 7772, 991, 9376>>,
      <<5390, 2891, 300, 6536, 2100, 2572, 3971, 6415, 9888, 4615, 9934, 9925,
        2426, 726, 1599, 8419, 5995, 9174, 9721, 6544, 5352, 676, 235, 8052,
        6719, 7630, 5656, 6738, 6387, 8951, 1117, 4944, 3091, 8293, 8770,
        2520, 803, 2432, 3146, 7696>>,
      <<122, 1123, 3928, 6838, 1386, 1124, 2318, 7575, 1474, 7406, 6621, 1365,
        5356, 4477, 4125, 9963, 931, 203, 9398, 4029, 1984, 3303, 3648, 9551,
        2103, 2169, 5849, 5473, 9537, 8386, 3555, 2038, 8364, 9889, 303, 7350,
        8683, 6511, 2183, 7965>>>>

\* the k-th next value rng.random() returns, in units of 1/RATE_ONE
rng_random(rng, k) ==
    random_stream[rng.seed + 1][rng.position + k]

\* AwakeningEngine(config, seed)
AwakeningEngine(config, seed) ==
    [self |-> reset(config), rng |-> Random(seed), result |-> <<>>]

\* engine.step() on an engine that owns its generator: RuntimeError, and
\* nothing changes, when the engine is complete
engine_step(e) ==
    IF is_complete(e.self) THEN e
    ELSE LET out == step(e.self, rng_random(e.rng, 1), rng_random(e.rng, 2))
         IN  [self |-> out.self,
              rng |-> [e.rng EXCEPT !.position = @ + Len(out.draws)],
              result |-> <<out.result>>]

\* a reset() that leaves the pity-energy map as the run left it
engine_reset_keeps_energy(e) ==
    [e EXCEPT !.self = [reset(e.self.config) EXCEPT
                           !.anvil_energy = e.self.anvil_energy]]

\* engine.reset() on an engine that owns its generator: the generator is
\* not reseeded
engine_reset(e) ==
    [e EXCEPT !.self = reset(e.self.config)]

\* two engines a and f built from the same configuration and seed: step()
\* and reset() are called on a, run_fast() and reset() on f
InitTwin ==
    /\ pc = "idle"
    /\ sim = IdleSim
    /\ engine = IdleEngine
    /\ last_step = <<>>
    /\ fast = NoLocals
    /\ returned = <<>>
    /\ draws = <<>>
    /\ raised = "None"
    /\ mc = NoMonteCarlo
    /\ screen = NoScreen
    /\ \E config \in Configs, seed \in 0..MaxSeed :
          twin = [kind |-> "Twin",
                  a |-> AwakeningEngine(config, seed),
                  f |-> AwakeningEngine(config, seed),
                  locals |-> NoLocals,
                  position |-> "idle",
                  returned |-> <<>>,
                  resets |-> 0,
                  runs |-> 0]

\* the engines share nothing: run_fast() is called on f, and runs as far as
\* the model follows it, before the calls on a
fast_done(t) ==
    \/ t.position = "returned"
    \/ t.position = "idle" /\ t.runs > 0
    \/ /\ t.position = "run_fast"
       /\ t.locals.level < t.f.self.config.target_level
       /\ ~(fast_iterations(t.locals) < MaxAttempts)

\* a.step()
TwinStep ==
    /\ twin.kind = "Twin"
    /\ fast_done(twin)
    /\ ~is_complete(twin.a.self)
    /\ twin.a.self.attempts < MaxAttempts
    /\ twin' = [twin EXCEPT !.a = engine_step(@)]
    /\ UNCHANGED <<pc, sim, engine, last_step, fast, returned, draws, raised, mc, screen>>

\* a.reset()
TwinReset ==
    /\ twin.kind = "Twin"
    /\ fast_done(twin)
    /\ twin.resets < MaxResets
    /\ twin' = [twin EXCEPT !.a = engine_reset(@), !.resets = @ + 1]
    /\ UNCHANGED <<pc, sim, engine, last_step, fast, returned, draws, raised, mc, screen>>

\* f.run_fast() is called: the locals are set up
TwinFastBegin ==
    /\ twin.kind = "Twin"
    /\ twin.position = "idle"
    /\ twin.a.result = <<>> /\ twin.resets = 0
    /\ twin' = [twin EXCEPT !.position = "run_fast",
                            !.locals = run_fast_locals(twin.f.self)]
    /\ UNCHANGED <<pc, sim, engine, last_step, fast, returned, draws, raised, mc, screen>>

\* one iteration of the while loop of f.run_fast()
TwinFastIteration ==
    /\ twin.kind = "Twin"
    /\ twin.position = "run_fast"
    /\ twin.locals.level < twin.f.self.config.target_level
    /\ fast_iterations(twin.locals) < MaxAttempts
    /\ LET out == run_fast_iteration(twin.f.self, twin.locals,
                      rng_random(twin.f.rng, 1), rng_random(twin.f.rng, 2))
       IN  twin' = [twin EXCEPT !.f.self = out.self,
                                !.f.rng.position = @ + Len(out.draws),
                                !.locals = out.locals]
    /\ UNCHANGED <<pc, sim, engine, last_step, fast, returned, draws, raised, mc, screen>>

\* the return of f.run_fast()
TwinFastReturn ==
    /\ twin.kind = "Twin"
    /\ twin.position = "run_fast"
    /\ ~(twin.locals.level < twin.f.self.config.target_level)
    /\ twin' = [twin EXCEPT !.position = "returned",
                            !.returned = <<twin.locals.crystals, twin.locals.scrolls,
                                           twin.locals.silver,
                                           twin.locals.exquisite_crystals>>]
    /\ UNCHANGED <<pc, sim, engine, last_step, fast, returned, draws, raised, mc, screen>>

\* f.reset() after f.run_fast() has returned, as in the loop
\* 'run_fast(); reset()' of the strategy screens
TwinFastReset ==
    /\ twin.kind = "Twin"
    /\ twin.position = "returned"
    /\ twin.a.result = <<>> /\ twin.resets = 0
    /\ twin.runs < MaxResets
    /\ twin' = [twin EXCEPT !.f = engine_reset(@),
                            !.position = "idle",
                            !.runs = @ + 1]
    /\ UNCHANGED <<pc, sim, engine, last_step, fast, returned, draws, raised, mc, screen>>

NextTwin ==
    \/ TwinFastReset
    \/ TwinStep
    \/ TwinReset
    \/ TwinFastBegin
    \/ TwinFastIteration
    \/ TwinFastReturn

SpecTwin == InitTwin /\ [][NextTwin]_vars

\* C29: run_fast() and a loop of step() until is_complete(), started from
\* the same freshly constructed engine and fed the same draws, take the
\* same number of draws and end with the same crystals, scrolls, silver and
\* exquisite crystals, at the same tier and with the same pity-energy map
C29_RunFastEqualsSteps ==
    (/\ twin.kind = "Twin"
     /\ twin.resets = 0
     /\ twin.runs = 0
     /\ twin.position = "returned"
     /\ is_complete(twin.a.self)) =>
        /\ twin.returned = <<twin.a.self.crystals, twin.a.self.scrolls,
                             twin.a.self.silver, twin.a.self.exquisite_crystals>>
        /\ twin.locals.level = twin.a.self.level
        /\ twin.f.self.anvil_energy = twin.a.self.anvil_energy
        /\ twin.f.rng.position = twin.a.rng.position

\* both runs are over after several attempts with a failure, a restoration
\* and a Valks cost among them
C29_Witness ==
    /\ twin.kind = "Twin"
    /\ twin.resets = 0
    /\ twin.runs = 0
    /\ twin.position = "returned"
    /\ is_complete(twin.a.self)
    /\ twin.a.self.attempts >= 3
    /\ twin.a.self.scrolls > 0
    /\ twin.a.self.valks_10_used + twin.a.self.valks_50_used + twin.a.self.valks_100_used > 0
    /\ twin.a.rng.position >= 4
    /\ twin.returned[3] > 0


\* C27: after reset() the engine is in the state of a freshly constructed
\* engine of the same configuration, whatever step() or run_fast() calls
\* came before: tier at start_level, empty pity-energy map, all resource
\* and attempt counters 0, Hepta/Okta progress at the configured start,
\* Hepta/Okta pity 0; so every run of a 'run_fast(); reset()' loop starts
\* from the same state
C27_ResetRestoresFreshState ==
    LET fresh(config) ==
            [config |-> config,
             level |-> config.start_level,
             anvil_energy |-> EmptyDict,
             crystals |-> 0, scrolls |-> 0, silver |-> 0,
             exquisite_crystals |-> 0,
             valks_10_used |-> 0, valks_50_used |-> 0, valks_100_used |-> 0,
             attempts |-> 0,
             hepta_progress |-> config.start_hepta,
             okta_progress |-> config.start_okta,
             hepta_pity |-> 0, okta_pity |-> 0]
    IN  twin.kind = "Twin" =>
          /\ (twin.resets > 0 /\ twin.a.self.attempts = 0) =>
                 twin.a.self = fresh(twin.a.self.config)
          /\ (twin.runs > 0 /\ twin.position = "idle") =>
                 twin.f.self = fresh(twin.f.self.config)

\* f has been reset after a run_fast() of several attempts, and a has been
\* reset after a step() that failed
C27_Witness ==
    /\ twin.kind = "Twin"
    /\ twin.runs = 1
    /\ twin.position = "idle"
    /\ twin.returned # <<>>
    /\ twin.returned[1] >= 3
    /\ twin.resets = 1
    /\ twin.a.self.attempts = 0
    /\ twin.a.result # <<>>
    /\ ~twin.a.result[1].success

(***************************************************************************)
(* Pairs of instances (engine.py and simulator.py): two engines, or two    *)
(* simulators, a and b, built with the same arguments and the same seed,   *)
(* by a caller that makes the same calls on both, one call at a time and   *)
(* in any interleaving: a call on b is the next call b has not yet had of  *)
(* those made on a.  What the instances could share is part of the state:  *)
(* the generator objects, among them the one of the random module, from    *)
(* which other code draws between the calls, and the caller's              *)
(* starting_state object, which is passed to both simulators.              *)
(***************************************************************************)
\* the calls made on each instance of a pair
MaxCalls == 2

\* the draws other code takes from the generator of the random module
MaxOtherDraws == 1

\* a generator that gives the draws of the module generator in place of a
\* new one
rng_attribute_module(instance) == "module"

\* self.rng = random.Random(seed) in __init__: the attribute names a new
\* generator object, which is named here after the instance that built it
rng_attribute(instance) == instance

\* SimulationConfig values of the pairs of engines
PairConfigs ==
    {SimulationConfig(0, 3, 1, FALSE, FALSE, 0, 0, <<0, 0, 1>>, Prices),
     SimulationConfig(2, 4, 6, FALSE, FALSE, 0, 0, <<1, 3, 5>>, Prices),
     SimulationConfig(7, 8, 6, TRUE, FALSE, 3, 0, <<1, 3, 5>>, Prices)}

\* <<starting tier, target tier, strategy>> of the pairs of simulators
PairRuns ==
    {<<0, 2, EnhancementStrategy("always", "never")>>,
     <<2, 3, EnhancementStrategy("always", "small_only")>>,
     <<3, 4, EnhancementStrategy("never", "large_only")>>}

\* an instance of a pair: its attributes (rng names a generator object;
\* self is the engine's run state), the gear its caller passes to
\* attempt_enhancement, the call it is in with the locals of
\* simulate_to_target (run) and run_monte_carlo (results), and what its
\* calls have returned or raised so far
pair_instance(class, instance, self, gear) ==
    [class |-> class, rng |-> rng_attribute(instance), self |-> self,
     gear |-> gear, call |-> "none", in_run |-> FALSE, run |-> IdleSim,
     results |-> <<>>, outcomes |-> <<>>, calls |-> 0]

\* a = AwakeningEngine(config, seed); b = AwakeningEngine(config, seed), or
\* a = AwakeningSimulator(seed); b = AwakeningSimulator(seed) with the
\* arguments of their calls; the module generator is seeded otherwise
InitPair ==
    /\ pc = "idle"
    /\ sim = IdleSim
    /\ engine = IdleEngine
    /\ last_step = <<>>
    /\ fast = NoLocals
    /\ returned = <<>>
    /\ draws = <<>>
    /\ raised = "None"
    /\ mc = NoMonteCarlo
    /\ screen = NoScreen
    /\ \E seed \in 0..MaxSeed :
          LET generators == [g \in {"a", "b", "module"} |->
                                IF g = "module"
                                THEN Random((seed + 1) % (MaxSeed + 1))
                                ELSE Random(seed)]
              idle_gear == [awakening_level |-> 0, anvil_energy |-> EmptyDict]
          IN  \/ \E config \in PairConfigs :
                    twin = [kind |-> "Pair", generators |-> generators,
                            start |-> idle_gear, target_level |-> config.target_level,
                            strategy |-> EnhancementStrategy("always", "never"),
                            a |-> pair_instance("AwakeningEngine", "a",
                                                reset(config), idle_gear),
                            b |-> pair_instance("AwakeningEngine", "b",
                                                reset(config), idle_gear),
                            script |-> <<>>, active |-> "none", others |-> 0]
              \/ \E r \in PairRuns :
                    LET start == [awakening_level |-> r[1],
                                  anvil_energy |-> EmptyDict]
                    IN  twin = [kind |-> "Pair", generators |-> generators,
                                start |-> start, target_level |-> r[2],
                                strategy |-> r[3],
                                a |-> pair_instance("AwakeningSimulator", "a",
                                                    IdleEngine, copy(start)),
                                b |-> pair_instance("AwakeningSimulator", "b",
                                                    IdleEngine, copy(start)),
                                script |-> <<>>, active |-> "none", others |-> 0]

\* the calls a caller makes on an instance
pair_calls(class) ==
    IF class = "AwakeningEngine" THEN {"step", "reset"}
    ELSE {"attempt_enhancement", "simulate_to_target", "run_monte_carlo"}

\* the k-th next value self.rng.random() returns to instance i
pair_random(t, i, k) == rng_random(t.generators[t[i].rng], k)

\* the draws of the instance's generator are followed as far as
\* random_stream lists them
draws_followed(t, i) ==
    LET rng == t.generators[t[i].rng]
    IN  rng.position + 2 <= Len(random_stream[rng.seed + 1])

\* the call is one the model follows
call_followed(t, i, call) ==
    CASE call = "step" -> draws_followed(t, i) /\ t[i].self.attempts < MaxAttempts
      [] call = "attempt_enhancement" -> draws_followed(t, i)
      [] OTHER -> TRUE

\* instance i has made a call that returned value
pair_return(t, i, call, value) ==
    [t EXCEPT ![i].outcomes = Append(@, [call |-> call, value |-> value]),
              ![i].calls = @ + 1]

\* instance i has made a call that raised
pair_raise(t, i, call, error) ==
    [t EXCEPT ![i].outcomes = Append(@, [call |-> call, raised |-> error]),
              ![i].calls = @ + 1]

\* engine.step() on instance i
pair_step(t, i) ==
    IF is_complete(t[i].self) THEN pair_raise(t, i, "step", "RuntimeError")
    ELSE LET out == step(t[i].self, pair_random(t, i, 1), pair_random(t, i, 2))
         IN  pair_return(
                 [t EXCEPT ![i].self = out.self,
                           !.generators[t[i].rng].position = @ + Len(out.draws)],
                 i, "step", out.result)

\* engine.reset() on instance i
pair_reset(t, i) ==
    pair_return([t EXCEPT ![i].self = reset(t[i].self.config)], i, "reset", "None")

\* simulator.attempt_enhancement(gear, strategy) on instance i, gear being
\* the caller's object for this instance
pair_attempt_enhancement(t, i) ==
    IF at_max_level(t[i].gear)
    THEN pair_raise(t, i, "attempt_enhancement", "ValueError")
    ELSE LET out == attempt_enhancement(t[i].gear, t.strategy,
                        pair_random(t, i, 1), pair_random(t, i, 2))
         IN  pair_return(
                 [t EXCEPT ![i].gear = out.gear,
                           !.generators[t[i].rng].position = @ + Len(out.draws)],
                 i, "attempt_enhancement", out.result)

\* the call is made on instance i: step(), reset() and attempt_enhancement()
\* return at once; simulate_to_target(target_level, strategy, start) and
\* run_monte_carlo(target_level, strategy, MaxSimulations, start) enter
\* their loops
pair_call(t, i, call) ==
    CASE call = "step" -> pair_step(t, i)
      [] call = "reset" -> pair_reset(t, i)
      [] call = "attempt_enhancement" -> pair_attempt_enhancement(t, i)
      [] call = "simulate_to_target" ->
            [t EXCEPT ![i].call = call, ![i].in_run = TRUE,
                      ![i].run = simulate_to_target(t.target_level, t.strategy,
                                     t.start, DEFAULT_MAX_ATTEMPTS),
                      !.active = i]
      [] call = "run_monte_carlo" ->
            [t EXCEPT ![i].call = call, ![i].results = <<>>, !.active = i]

\* the caller makes its next call on a
PairCallA ==
    /\ twin.kind = "Pair" /\ twin.active = "none"
    /\ Len(twin.script) < MaxCalls
    /\ \E call \in pair_calls(twin.a.class) :
          /\ call_followed(twin, "a", call)
          /\ twin' = pair_call([twin EXCEPT !.script = Append(@, call)], "a", call)
    /\ UNCHANGED <<pc, sim, engine, last_step, fast, returned, draws, raised, mc, screen>>

\* the caller makes on b the next of the calls it has made on a
PairCallB ==
    /\ twin.kind = "Pair" /\ twin.active = "none"
    /\ twin.b.calls < Len(twin.script)
    /\ call_followed(twin, "b", twin.script[twin.b.calls + 1])
    /\ twin' = pair_call(twin, "b", twin.script[twin.b.calls + 1])
    /\ UNCHANGED <<pc, sim, engine, last_step, fast, returned, draws, raised, mc, screen>>

\* other code calls random.random(): a draw from the module generator
PairOther ==
    /\ twin.kind = "Pair" /\ twin.active = "none"
    /\ twin.others < MaxOtherDraws
    /\ twin' = [twin EXCEPT !.generators["module"].position = @ + 1,
                            !.others = @ + 1]
    /\ UNCHANGED <<pc, sim, engine, last_step, fast, returned, draws, raised, mc, screen>>

\* an iteration of run_monte_carlo's for loop calls simulate_to_target with
\* the caller's starting_state object
PairSimulate ==
    /\ twin.kind = "Pair" /\ twin.active # "none"
    /\ LET i == twin.active
       IN  /\ twin[i].call = "run_monte_carlo" /\ ~twin[i].in_run
           /\ Len(twin[i].results) < MaxSimulations
           /\ twin' = [twin EXCEPT
                          ![i].in_run = TRUE,
                          ![i].run = simulate_to_target(twin.target_level,
                                         twin.strategy, twin.start,
                                         DEFAULT_MAX_ATTEMPTS)]
    /\ UNCHANGED <<pc, sim, engine, last_step, fast, returned, draws, raised, mc, screen>>

\* an iteration of simulate_to_target's loop, for the first MaxAttempts
\* attempts of a run; the gear is the caller's object when the run works in
\* place
PairAttempt ==
    /\ twin.kind = "Pair" /\ twin.active # "none"
    /\ LET i == twin.active
           run == twin[i].run
       IN  /\ twin[i].in_run
           /\ run.gear.awakening_level < run.target_level
           /\ run.result.total_attempts < run.max_attempts
           /\ ~at_max_level(run.gear)
           /\ run.result.total_attempts < MaxAttempts
           /\ draws_followed(twin, i)
           /\ LET out == attempt_enhancement(run.gear, run.strategy,
                             pair_random(twin, i, 1), pair_random(twin, i, 2))
              IN  twin' = [twin EXCEPT
                              ![i].run = [run EXCEPT
                                             !.gear = out.gear,
                                             !.attempt = <<out.result>>,
                                             !.result = record_attempt(@, out.result)],
                              !.start = IF run.gear_ref = "starting_state"
                                        THEN out.gear ELSE @,
                              !.generators[twin[i].rng].position =
                                  @ + Len(out.draws)]
    /\ UNCHANGED <<pc, sim, engine, last_step, fast, returned, draws, raised, mc, screen>>

\* the end of simulate_to_target: silver cost, return, to the caller or to
\* run_monte_carlo (results.append(result))
PairRunReturn ==
    /\ twin.kind = "Pair" /\ twin.active # "none"
    /\ LET i == twin.active
           run == twin[i].run
           result == [run.result EXCEPT
                         !.silver_cost = @ + silver_cost(run.result.materials_used)]
       IN  /\ twin[i].in_run
           /\ ~(/\ run.gear.awakening_level < run.target_level
                /\ run.result.total_attempts < run.max_attempts)
           /\ twin' = IF twin[i].call = "simulate_to_target"
                      THEN pair_return(
                               [twin EXCEPT ![i].in_run = FALSE,
                                            ![i].call = "none",
                                            ![i].run.result = result,
                                            !.active = "none"],
                               i, "simulate_to_target", result)
                      ELSE [twin EXCEPT ![i].in_run = FALSE,
                                        ![i].run.result = result,
                                        ![i].results = Append(@, result)]
    /\ UNCHANGED <<pc, sim, engine, last_step, fast, returned, draws, raised, mc, screen>>

\* the end of run_monte_carlo: the statistics of its results
PairMonteCarloReturn ==
    /\ twin.kind = "Pair" /\ twin.active # "none"
    /\ LET i == twin.active
       IN  /\ twin[i].call = "run_monte_carlo" /\ ~twin[i].in_run
           /\ Len(twin[i].results) = MaxSimulations
           /\ twin' = pair_return(
                          [twin EXCEPT ![i].call = "none", !.active = "none"],
                          i, "run_monte_carlo",
                          run_monte_carlo_stats(MaxSimulations, twin.target_level,
                                                twin.strategy, twin[i].results))
    /\ UNCHANGED <<pc, sim, engine, last_step, fast, returned, draws, raised, mc, screen>>

NextPair ==
    \/ PairCallA
    \/ PairCallB
    \/ PairOther
    \/ PairSimulate
    \/ PairAttempt
    \/ PairRunReturn
    \/ PairMonteCarloReturn

SpecPair == InitPair /\ [][NextPair]_vars

\* C24: two engines, or two simulators, built with the same seed and the
\* same configuration (strategy, starting state) and given the same
\* sequence of calls produce the same outcomes, whatever the interleaving
\* of their calls and whatever other code draws from the module generator
\* in between: every call on b returns or raises what the same call
\* returned or raised on a (StepResult, AttemptResult, the ledger of
\* simulate_to_target, the statistics of run_monte_carlo), and after the
\* same number of calls the two instances are in the same state and have
\* taken the same number of draws
C24_SameSeedSameOutcomes ==
    twin.kind = "Pair" =>
        /\ \A k \in 1..Len(twin.b.outcomes) :
              /\ k <= Len(twin.a.outcomes)
              /\ twin.b.outcomes[k] = twin.a.outcomes[k]
        /\ (twin.active = "none" /\ twin.a.calls = twin.b.calls) =>
              /\ twin.a.self = twin.b.self
              /\ twin.a.gear = twin.b.gear
              /\ twin.a.run = twin.b.run
              /\ twin.generators["a"].position = twin.generators["b"].position

\* two simulators have both returned the statistics of a run_monte_carlo
\* whose worst run took at least two attempts, and then the AttemptResult
\* of a failed attempt, while other code drew from the module generator
C24_Witness ==
    /\ twin.kind = "Pair"
    /\ twin.a.class = "AwakeningSimulator"
    /\ twin.script = <<"run_monte_carlo", "attempt_enhancement">>
    /\ twin.b.calls = 2
    /\ twin.others = 1
    /\ twin.b.outcomes[1].value.attempts.worst >= 2
    /\ ~twin.b.outcomes[2].value.success
    /\ twin.generators["b"].position >= 3


\* C28: the outcome of every normal attempt, by attempt_enhancement and by
\* _perform_enhancement_step, is consistent: ending_level is
\* starting_level + 1 exactly when success; on failure ending_level is
\* starting_level or starting_level - 1; anvil_triggered implies success;
\* restoration_success implies restoration_attempted, which implies failure
\* and starting_level > 0; a failure with restoration_success keeps the tier
C28_OutcomeConsistent ==
    LET consistent(res) ==
            /\ res.success <=> res.ending_level = res.starting_level + 1
            /\ ~res.success =>
                   res.ending_level \in {res.starting_level, res.starting_level - 1}
            /\ res.anvil_triggered => res.success
            /\ res.restoration_success => res.restoration_attempted
            /\ res.restoration_attempted =>
                   ~res.success /\ res.starting_level > 0
            /\ (~res.success /\ res.restoration_success) =>
                   res.ending_level = res.starting_level
    IN  /\ SimAttemptEnabled =>
              \A roll \in Rolls, restoration_roll \in Rolls :
                 LET out == attempt_enhancement(sim.gear, sim.strategy, roll,
                                                restoration_roll)
                 IN  /\ consistent(out.result)
                     /\ out.result.starting_level = sim.gear.awakening_level
                     /\ out.result.ending_level = out.gear.awakening_level
        /\ (pc = "idle" /\ ~is_complete(engine)
               /\ ~_should_use_hepta(engine) /\ ~_should_use_okta(engine)) =>
              \A roll \in Rolls, restoration_roll \in Rolls :
                 LET out == _perform_enhancement_step(engine, roll, restoration_roll)
                 IN  /\ consistent(out.result)
                     /\ out.result.starting_level = engine.level
                     /\ out.result.ending_level = out.self.level

\* a failed step() from a tier above 0 whose recovery draw failed too: the
\* tier went down by one
C28_Witness ==
    /\ last_step # <<>>
    /\ ~last_step[1].success
    /\ ~last_step[1].anvil_triggered
    /\ last_step[1].restoration_attempted
    /\ ~last_step[1].restoration_success
    /\ last_step[1].starting_level > 0
    /\ last_step[1].ending_level = last_step[1].starting_level - 1
    /\ engine.level = last_step[1].ending_level

(***************************************************************************)
(* run_full_simulation() and run_fast() as loops without a bound on the    *)
(* number of attempts (engine.py, 426-442 and 444-559).  Every draw is     *)
(* arbitrary.  The only counter without a bound of its own is the pity     *)
(* energy of a tier whose threshold is 0, which counts the failures at     *)
(* the tier since its last success: a run is followed until one of these   *)
(* energies exceeds MaxStreak.                                             *)
(***************************************************************************)
\* the failures in a row at a tier without pity a run is followed for
MaxStreak == 2

\* an attempt at a tier without pity has failed more than MaxStreak times
\* in a row
streak_exceeded(self) ==
    \E t \in DOMAIN self.anvil_energy :
        /\ DictGet(_ANVIL_CACHE, t, DEFAULT_THRESHOLD) = 0
        /\ self.anvil_energy[t] > MaxStreak

\* the highest target of the runs by normal attempts
LiveTarget == 3

\* configurations with start_level < target_level whose runs visit few
\* tiers: targets up to LiveTarget from any lower tier, without recovery
\* and with recovery from tier 1, and runs from VII and VIII up to IX that
\* take both sub-paths, each two sub-enhancements from its end
LiveConfigs ==
    {SimulationConfig(p[1], p[2], n[1], FALSE, FALSE, 0, 0, n[2], Prices) :
        p \in {q \in (0..LiveTarget) \X (1..LiveTarget) : q[1] < q[2]},
        n \in {<<0, <<0, 0, 0>>>>, <<1, <<0, 0, 1>>>>}}
    \cup
    {SimulationConfig(p[1], p[2], r, TRUE, TRUE, HEPTA_SUB_ENHANCEMENTS - 2,
                      OKTA_SUB_ENHANCEMENTS - 2, <<1, 3, 5>>, Prices) :
        p \in {q \in (7..8) \X (8..9) : q[1] < q[2]}, r \in {0, 6}}

\* engine = AwakeningEngine(config), then engine.run_full_simulation() or
\* engine.run_fast() is called
InitLive ==
    /\ \E config \in LiveConfigs : engine = reset(config)
    /\ \/ pc = "run_full_simulation" /\ fast = NoLocals
       \/ pc = "run_fast" /\ fast = run_fast_locals(engine)
    /\ sim = IdleSim
    /\ last_step = <<>>
    /\ returned = <<>>
    /\ draws = <<>>
    /\ raised = "None"
    /\ mc = NoMonteCarlo
    /\ screen = NoScreen
    /\ twin = NoTwin

\* one iteration of the while loop of run_full_simulation: self.step()
FullIteration ==
    /\ pc = "run_full_simulation"
    /\ ~is_complete(engine)
    /\ ~streak_exceeded(engine)
    /\ \E roll \in Rolls, restoration_roll \in Rolls :
          LET out == step(engine, roll, restoration_roll)
          IN  /\ engine' = out.self
              /\ last_step' = <<out.result>>
              /\ draws' = out.draws
    /\ UNCHANGED <<pc, sim, fast, returned, raised, mc, screen, twin>>

\* run_full_simulation leaves its loop and returns a SimulationResult
FullReturn ==
    /\ pc = "run_full_simulation"
    /\ is_complete(engine)
    /\ pc' = "returned"
    /\ returned' = <<[crystals |-> engine.crystals, scrolls |-> engine.scrolls,
                      silver |-> engine.silver,
                      exquisite_crystals |-> engine.exquisite_crystals,
                      attempts |-> engine.attempts,
                      final_level |-> engine.level,
                      anvil_energy |-> engine.anvil_energy,
                      valks_10_used |-> engine.valks_10_used,
                      valks_50_used |-> engine.valks_50_used,
                      valks_100_used |-> engine.valks_100_used]>>
    /\ UNCHANGED <<sim, engine, last_step, fast, draws, raised, mc, screen, twin>>

\* one iteration of the while loop of run_fast
FastIteration ==
    /\ pc = "run_fast"
    /\ fast.level < engine.config.target_level
    /\ ~streak_exceeded(engine)
    /\ \E roll \in Rolls, restoration_roll \in Rolls :
          LET out == run_fast_iteration(engine, fast, roll, restoration_roll)
          IN  /\ engine' = out.self
              /\ fast' = out.locals
              /\ draws' = out.draws
    /\ UNCHANGED <<pc, sim, last_step, returned, raised, mc, screen, twin>>

\* run_fast leaves its loop and returns its tuple; the locals are kept for
\* the tier the loop ended at
FastReturn ==
    /\ pc = "run_fast"
    /\ ~(fast.level < engine.config.target_level)
    /\ pc' = "returned"
    /\ returned' = <<fast.crystals, fast.scrolls, fast.silver,
                     fast.exquisite_crystals>>
    /\ UNCHANGED <<sim, engine, last_step, fast, draws, raised, mc, screen, twin>>

NextLive == FullIteration \/ FullReturn \/ FastIteration \/ FastReturn

\* the loops run on: the interpreter executes the next iteration, and the
\* return statement when the loop condition fails
LiveFairness == WF_vars(NextLive)

SpecLive == InitLive /\ [][NextLive]_vars /\ LiveFairness

\* the tier the running call has reached
live_level ==
    IF fast = NoLocals THEN engine.level ELSE fast.level

\* C25: run_full_simulation() and run_fast(), called with
\* start_level < target_level <= 10, eventually return, and they return only
\* with the tier at or above the target; the assumption that an attempt
\* made again and again eventually succeeds is that no attempt at a tier
\* without pity fails more than MaxStreak times in a row, and no assumption
\* is made on the draws at the tiers with pity and on the sub-paths
C25_EventuallyReturns ==
    /\ [](pc = "returned" => live_level >= engine.config.target_level)
    /\ <>(pc = "returned" \/ streak_exceeded(engine))

\* run_full_simulation() has returned at the target after more than
\* MaxAttempts attempts, a failure with a recovery among them, and its last
\* attempt succeeded by pity, without a draw
C25_Witness ==
    /\ pc = "returned"
    /\ fast = NoLocals
    /\ returned # <<>>
    /\ returned[1].final_level >= engine.config.target_level
    /\ engine.attempts > MaxAttempts
    /\ engine.scrolls > 0
    /\ last_step # <<>> /\ last_step[1].anvil_triggered
    /\ draws = <<>>

(***************************************************************************)
(* SimulationScreen (src/src/tui.py): the interactive run.  Every call of  *)
(* run_simulation creates a task that runs _run_simulation_async on the    *)
(* event loop.  A task runs from one await that suspends it to the next    *)
(* without interruption: screen.active is the task that is running (0 when *)
(* the event loop is idle), and the user's actions and the resumption of   *)
(* another task happen only while no task is running.  The log and the     *)
(* level displays are not part of the state.                               *)
(***************************************************************************)
\* the restarts of a SimulationScreen
MaxRestarts == 1

\* the normal attempts (_perform_enhancement) a screen is followed for
MaxNormalAttempts == 1

\* the success rate of a sub-attempt in _perform_hepta_okta_attempt, in
\* units of 1/RATE_ONE
TUI_SUB_RATE == 600

\* <<start_level, target_level, use_hepta, use_okta, start_hepta, start_okta>>
\* of the runs the screen is mounted with, at each speed: -1 instant, 0 fast,
\* 1 regular
SimConfigs ==
    {[start_level |-> c[1], target_level |-> c[2], use_hepta |-> c[3],
      use_okta |-> c[4], start_hepta |-> c[5], start_okta |-> c[6],
      valks_10_from |-> 1, valks_50_from |-> 3, valks_100_from |-> 5,
      restoration_from |-> 6, market_prices |-> Prices,
      speed |-> speed] :
        c \in {<<7, 8, TRUE, FALSE, HEPTA_SUB_ENHANCEMENTS - 1, 0>>,
               <<8, 9, FALSE, TRUE, 0, OKTA_SUB_ENHANCEMENTS - 1>>},
        speed \in {-1, 0, 1}}

\* SimulationScreen(config) after on_mount: run_simulation has set running
\* and created the first task; the progress displays show "-"
SimulationScreen(config) ==
    [kind |-> "simulation",
     config |-> config,
     gear |-> [awakening_level |-> config.start_level, anvil_energy |-> EmptyDict],
     running |-> TRUE,
     paused |-> FALSE,
     attempt_count |-> 0,
     target_attempts |-> 0,
     total_crystals |-> 0,
     total_scrolls |-> 0,
     total_valks_10 |-> 0,
     total_valks_50 |-> 0,
     total_valks_100 |-> 0,
     total_silver |-> 0,
     total_exquisite_crystals |-> 0,
     final_anvil_snapshot |-> <<>>,
     hepta_sub_progress |-> config.start_hepta,
     okta_sub_progress |-> config.start_okta,
     hepta_sub_pity |-> 0,
     okta_sub_pity |-> 0,
     hepta_text |-> <<>>,
     okta_text |-> <<>>,
     tasks |-> <<[position |-> "created", is_okta |-> FALSE, branch |-> "none"]>>,
     active |-> 0,
     mounted |-> TRUE,
     restarts |-> 0,
     stale_attempt |-> FALSE,
     stale_stop |-> FALSE]

\* SimulationScreen._should_use_hepta
screen_should_use_hepta(scr) ==
    /\ (scr.config.use_hepta \/ scr.hepta_sub_progress > 0)
    /\ scr.gear.awakening_level = 7
    /\ scr.hepta_sub_progress < HEPTA_SUB_ENHANCEMENTS

\* SimulationScreen._should_use_okta
screen_should_use_okta(scr) ==
    /\ (scr.config.use_okta \/ scr.okta_sub_progress > 0)
    /\ scr.gear.awakening_level = 8
    /\ scr.okta_sub_progress < OKTA_SUB_ENHANCEMENTS

\* SimulationScreen._get_exquisite_crystal_cost
screen_exquisite_crystal_cost(scr) ==
    LET prices == scr.config.market_prices
    IN  (EXQUISITE_BLACK_CRYSTAL_RECIPE["restoration_scrolls"]
             * prices.restoration_bundle_price) \div RESTORATION_MARKET_BUNDLE_SIZE
        + EXQUISITE_BLACK_CRYSTAL_RECIPE["valks_100"] * prices.valks_100_price
        + EXQUISITE_BLACK_CRYSTAL_RECIPE["pristine_black_crystal"] * prices.crystal_price

\* SimulationScreen._perform_hepta_okta_attempt: the draw is taken only
\* when pity does not force the success
_perform_hepta_okta_attempt(scr, is_okta, roll) ==
    LET current_pity == IF is_okta THEN scr.okta_sub_pity ELSE scr.hepta_sub_pity
        target_for_path == IF is_okta THEN 9 ELSE 8
        paid == [scr EXCEPT
                    !.total_exquisite_crystals = @ + HEPTA_OKTA_CRYSTALS_PER_ATTEMPT,
                    !.total_silver = @ + screen_exquisite_crystal_cost(scr)
                                           * HEPTA_OKTA_CRYSTALS_PER_ATTEMPT,
                    !.attempt_count = @ + 1,
                    !.target_attempts =
                        IF target_for_path = scr.config.target_level
                        THEN @ + 1 ELSE @]
        anvil_triggered == current_pity >= HEPTA_OKTA_ANVIL_PITY
    IN  [scr |-> IF anvil_triggered \/ roll < TUI_SUB_RATE
                 THEN IF is_okta
                      THEN [paid EXCEPT !.okta_sub_progress = @ + 1,
                                        !.okta_sub_pity = 0]
                      ELSE [paid EXCEPT !.hepta_sub_progress = @ + 1,
                                        !.hepta_sub_pity = 0]
                 ELSE IF is_okta
                      THEN [paid EXCEPT !.okta_sub_pity = @ + 1]
                      ELSE [paid EXCEPT !.hepta_sub_pity = @ + 1],
         draws |-> IF anvil_triggered THEN <<>> ELSE <<roll>>]

\* SimulationScreen._get_valks_for_level
screen_get_valks_for_level(scr, target_level) ==
    IF scr.config.valks_100_from > 0 /\ target_level >= scr.config.valks_100_from
    THEN "100"
    ELSE IF scr.config.valks_50_from > 0 /\ target_level >= scr.config.valks_50_from
    THEN "50"
    ELSE IF scr.config.valks_10_from > 0 /\ target_level >= scr.config.valks_10_from
    THEN "10"
    ELSE "None"

\* SimulationScreen._should_use_restoration
screen_should_use_restoration(scr, current_level) ==
    IF scr.config.restoration_from = 0 THEN FALSE
    ELSE current_level >= scr.config.restoration_from

\* SimulationScreen._perform_enhancement: a normal attempt on the screen's
\* gear and ledger
_perform_enhancement(scr, roll, restoration_roll) ==
    LET target_level == scr.gear.awakening_level + 1
        valks_type   == screen_get_valks_for_level(scr, target_level)
        rate         == DictGet(AWAKENING_ENHANCEMENT_RATES, target_level, DEFAULT_RATE)
        base_rate    ==
            IF valks_type = "10"
            THEN Min(RATE_ONE, (rate * VALKS_MULTIPLIER_10) \div PERCENT)
            ELSE IF valks_type = "50"
            THEN Min(RATE_ONE, (rate * VALKS_MULTIPLIER_50) \div PERCENT)
            ELSE IF valks_type = "100"
            THEN Min(RATE_ONE, (rate * VALKS_MULTIPLIER_100) \div PERCENT)
            ELSE rate
        current_energy == get_energy(scr.gear, target_level)
        max_energy   == DictGet(ANVIL_THRESHOLDS_AWAKENING, target_level,
                                DEFAULT_THRESHOLD)
        anvil_triggered == current_energy >= max_energy /\ max_energy > 0
        prices       == scr.config.market_prices
        counted ==
            [scr EXCEPT
                !.attempt_count = @ + 1,
                !.target_attempts =
                    IF target_level = scr.config.target_level THEN @ + 1 ELSE @,
                !.total_crystals = @ + 1,
                !.total_silver = @ + prices.crystal_price]
        paid ==
            IF valks_type = "10"
            THEN [counted EXCEPT !.total_valks_10 = @ + 1,
                                 !.total_silver = @ + prices.valks_10_price]
            ELSE IF valks_type = "50"
            THEN [counted EXCEPT !.total_valks_50 = @ + 1,
                                 !.total_silver = @ + prices.valks_50_price]
            ELSE IF valks_type = "100"
            THEN [counted EXCEPT !.total_valks_100 = @ + 1,
                                 !.total_silver = @ + prices.valks_100_price]
            ELSE counted
        succeeded ==
            [paid EXCEPT
                !.final_anvil_snapshot =
                    IF target_level = scr.config.target_level
                    THEN <<scr.gear.anvil_energy>> ELSE @,
                !.gear = reset_energy([scr.gear EXCEPT !.awakening_level = target_level],
                                      target_level)]
        level        == scr.gear.awakening_level
        energised    == [paid EXCEPT !.gear = add_energy(scr.gear, target_level)]
        use_restoration == level > 0 /\ screen_should_use_restoration(scr, level)
        restoration_success == restoration_roll < RESTORATION_SUCCESS_RATE
        failed ==
            IF use_restoration
            THEN [energised EXCEPT
                     !.total_scrolls = @ + RESTORATION_PER_ATTEMPT,
                     !.total_silver = @ + restoration_attempt_cost(prices),
                     !.gear.awakening_level =
                         IF restoration_success THEN @ ELSE @ - 1]
            ELSE IF level > 0
            THEN [energised EXCEPT !.gear.awakening_level = @ - 1]
            ELSE energised
    IN  IF anvil_triggered THEN [scr |-> succeeded, draws |-> <<>>]
        ELSE IF roll < base_rate THEN [scr |-> succeeded, draws |-> <<roll>>]
        ELSE [scr |-> failed,
              draws |-> IF use_restoration THEN <<roll, restoration_roll>>
                        ELSE <<roll>>]

\* SimulationScreen._check_hepta_okta_complete
_check_hepta_okta_complete(scr) ==
    IF /\ (scr.config.use_hepta \/ scr.hepta_sub_progress > 0)
       /\ scr.gear.awakening_level = 7
       /\ scr.hepta_sub_progress >= HEPTA_SUB_ENHANCEMENTS
    THEN [scr EXCEPT !.gear = [reset_energy(@, 8) EXCEPT !.awakening_level = 8],
                     !.hepta_sub_progress = 0, !.hepta_sub_pity = 0]
    ELSE IF /\ (scr.config.use_okta \/ scr.okta_sub_progress > 0)
            /\ scr.gear.awakening_level = 8
            /\ scr.okta_sub_progress >= OKTA_SUB_ENHANCEMENTS
    THEN [scr EXCEPT !.gear = [reset_energy(@, 9) EXCEPT !.awakening_level = 9],
                     !.okta_sub_progress = 0, !.okta_sub_pity = 0]
    ELSE scr

\* SimulationScreen._update_stats: the Hepta/Okta progress displays
_update_stats(scr) ==
    [scr EXCEPT
        !.hepta_text = IF scr.config.use_hepta
                       THEN <<scr.hepta_sub_progress>> ELSE <<>>,
        !.okta_text = IF scr.config.use_okta
                      THEN <<scr.okta_sub_progress>> ELSE <<>>]

\* the task is not the one created by the last run_simulation
stale(scr, i) == i < Len(scr.tasks)

\* the last statement of _run_simulation_async, self.running = False, by
\* task i, which ends
task_end(scr, i) ==
    [scr EXCEPT !.running = FALSE,
                !.tasks[i].position = "done",
                !.active = 0,
                !.stale_stop = @ \/ (stale(scr, i) /\ scr.running
                                       /\ scr.tasks[Len(scr.tasks)].position # "done")]

\* the attempt of a loop iteration by task i: a Hepta or an Okta
\* sub-attempt, or else a normal attempt
task_attempt(scr, i, roll, restoration_roll) ==
    LET is_okta == ~screen_should_use_hepta(scr)
        out == IF screen_should_use_hepta(scr) \/ screen_should_use_okta(scr)
               THEN _perform_hepta_okta_attempt(scr, is_okta, roll)
               ELSE _perform_enhancement(scr, roll, restoration_roll)
        branch == IF screen_should_use_hepta(scr) THEN "hepta"
                  ELSE IF screen_should_use_okta(scr) THEN "okta"
                  ELSE "normal"
    IN  [scr |-> [out.scr EXCEPT !.tasks[i].is_okta = is_okta,
                                 !.tasks[i].branch = branch,
                                 !.stale_attempt = @ \/ stale(scr, i)],
         draws |-> out.draws]

\* a screen is followed until it has made MaxNormalAttempts normal attempts
attempt_followed(scr) ==
    scr.total_crystals < MaxNormalAttempts

\* the screen is mounted and its first task is created
InitSim ==
    /\ pc = "idle"
    /\ sim = IdleSim
    /\ engine = IdleEngine
    /\ last_step = <<>>
    /\ fast = NoLocals
    /\ returned = <<>>
    /\ draws = <<>>
    /\ raised = "None"
    /\ mc = NoMonteCarlo
    /\ twin = NoTwin
    /\ \E config \in SimConfigs : screen = SimulationScreen(config)

\* the event loop runs a created task up to its first await (instant mode:
\* the sleep before the calculation) or into the loop (animated modes)
SimTaskBegin ==
    /\ screen.kind = "simulation" /\ screen.active = 0
    /\ \E i \in 1..Len(screen.tasks) :
          /\ screen.tasks[i].position = "created"
          /\ screen' = IF screen.config.speed < 0
                       THEN [screen EXCEPT !.tasks[i].position = "instant_sleep"]
                       ELSE [screen EXCEPT !.tasks[i].position = "loop",
                                           !.active = i]
    /\ UNCHANGED <<pc, sim, engine, last_step, fast, returned, draws, raised, mc, twin>>

\* the event loop resumes a task whose sleep is over
SimTaskResume ==
    /\ screen.kind = "simulation" /\ screen.active = 0
    /\ \E i \in 1..Len(screen.tasks) :
          LET position == screen.tasks[i].position
          IN  /\ position \in {"instant_sleep", "pause_sleep", "flash", "delay",
                               "celebration"}
              /\ screen' =
                   [screen EXCEPT
                       !.active = i,
                       !.tasks[i].position =
                           CASE position = "instant_sleep" -> "instant_loop"
                             [] position = "pause_sleep" -> "paused"
                             [] position = "flash" -> "log"
                             [] position = "delay" -> "loop"
                             [] position = "celebration" -> "end"]
    /\ UNCHANGED <<pc, sim, engine, last_step, fast, returned, draws, raised, mc, twin>>

\* instant mode: one iteration of the loop, the attempt and the check
\* together
SimInstantIteration ==
    /\ screen.kind = "simulation" /\ screen.active > 0
    /\ screen.tasks[screen.active].position = "instant_loop"
    /\ screen.gear.awakening_level < screen.config.target_level /\ screen.running
    /\ attempt_followed(screen)
    /\ \E roll \in Rolls, restoration_roll \in Rolls :
          LET out == task_attempt(screen, screen.active, roll, restoration_roll)
          IN  /\ screen' = IF out.scr.tasks[screen.active].branch = "normal"
                           THEN out.scr
                           ELSE _check_hepta_okta_complete(out.scr)
              /\ draws' = out.draws
    /\ UNCHANGED <<pc, sim, engine, last_step, fast, returned, raised, mc, twin>>

\* instant mode: the loop is left, the statistics are displayed and the
\* task ends
SimInstantEnd ==
    /\ screen.kind = "simulation" /\ screen.active > 0
    /\ screen.tasks[screen.active].position = "instant_loop"
    /\ ~(screen.gear.awakening_level < screen.config.target_level /\ screen.running)
    /\ screen' = task_end(_update_stats(screen), screen.active)
    /\ UNCHANGED <<pc, sim, engine, last_step, fast, returned, draws, raised, mc, twin>>

\* animated modes: the head of the loop and the wait while paused
SimLoop ==
    /\ screen.kind = "simulation" /\ screen.active > 0
    /\ LET i == screen.active
           position == screen.tasks[i].position
       IN  /\ position \in {"loop", "paused"}
           /\ screen' =
                IF position = "loop" /\
                   ~(screen.gear.awakening_level < screen.config.target_level
                       /\ screen.running)
                THEN [screen EXCEPT !.tasks[i].position = "exit"]
                ELSE IF screen.paused /\ screen.running
                THEN [screen EXCEPT !.tasks[i].position = "pause_sleep",
                                    !.active = 0]
                ELSE IF ~screen.running
                THEN [screen EXCEPT !.tasks[i].position = "exit"]
                ELSE [screen EXCEPT !.tasks[i].position = "attempt"]
    /\ UNCHANGED <<pc, sim, engine, last_step, fast, returned, draws, raised, mc, twin>>

\* animated modes: the attempt, then await _flash_attempt, which suspends
\* the task in regular mode only
SimAttempt ==
    /\ screen.kind = "simulation" /\ screen.active > 0
    /\ screen.tasks[screen.active].position = "attempt"
    /\ attempt_followed(screen)
    /\ \E roll \in Rolls, restoration_roll \in Rolls :
          LET i == screen.active
              out == task_attempt(screen, i, roll, restoration_roll)
              after == out.scr
          IN  /\ screen' = IF screen.config.speed >= 1
                           THEN [after EXCEPT !.tasks[i].position = "flash",
                                              !.active = 0]
                           ELSE [after EXCEPT !.tasks[i].position = "log"]
              /\ draws' = out.draws
    /\ UNCHANGED <<pc, sim, engine, last_step, fast, returned, raised, mc, twin>>

\* animated modes: _log_hepta_okta_attempt and _update_stats after the
\* attempt
SimUpdateStats ==
    /\ screen.kind = "simulation" /\ screen.active > 0
    /\ screen.tasks[screen.active].position = "log"
    /\ screen' = [_update_stats(screen) EXCEPT
                     !.tasks[screen.active].position = "check"]
    /\ UNCHANGED <<pc, sim, engine, last_step, fast, returned, draws, raised, mc, twin>>

\* animated modes: after a sub-attempt _check_hepta_okta_complete, and
\* _update_stats again when the path is complete; then the sleep that ends
\* the iteration
SimCheckComplete ==
    /\ screen.kind = "simulation" /\ screen.active > 0
    /\ screen.tasks[screen.active].position = "check"
    /\ LET checked == IF screen.tasks[screen.active].branch = "normal"
                      THEN screen
                      ELSE _check_hepta_okta_complete(screen)
           shown == IF checked # screen THEN _update_stats(checked) ELSE checked
       IN  screen' = [shown EXCEPT !.tasks[screen.active].position = "delay",
                                   !.active = 0]
    /\ UNCHANGED <<pc, sim, engine, last_step, fast, returned, draws, raised, mc, twin>>

\* animated modes: after the loop: the celebration sleep in regular mode
\* when still running, then self.running = False
SimExit ==
    /\ screen.kind = "simulation" /\ screen.active > 0
    /\ LET i == screen.active
           position == screen.tasks[i].position
       IN  /\ position \in {"exit", "end"}
           /\ screen' = IF position = "exit" /\ screen.running
                            /\ screen.config.speed >= 1
                        THEN [screen EXCEPT !.tasks[i].position = "celebration",
                                            !.active = 0]
                        ELSE task_end(screen, i)
    /\ UNCHANGED <<pc, sim, engine, last_step, fast, returned, draws, raised, mc, twin>>

\* action_restart: the state is reset, the displays are updated, and
\* run_simulation sets running and creates a new task; the tasks created
\* before are left as they are
SimRestart ==
    /\ screen.kind = "simulation" /\ screen.active = 0
    /\ screen.mounted
    /\ screen.restarts < MaxRestarts
    /\ screen' = [_update_stats(
                    [screen EXCEPT
                        !.paused = FALSE,
                        !.gear = [awakening_level |-> screen.config.start_level,
                                  anvil_energy |-> EmptyDict],
                        !.attempt_count = 0,
                        !.target_attempts = 0,
                        !.total_crystals = 0,
                        !.total_scrolls = 0,
                        !.total_valks_10 = 0,
                        !.total_valks_50 = 0,
                        !.total_valks_100 = 0,
                        !.total_silver = 0,
                        !.total_exquisite_crystals = 0,
                        !.final_anvil_snapshot = <<>>,
                        !.hepta_sub_progress = screen.config.start_hepta,
                        !.okta_sub_progress = screen.config.start_okta,
                        !.hepta_sub_pity = 0,
                        !.okta_sub_pity = 0])
                  EXCEPT !.running = TRUE,
                         !.tasks = Append(@, [position |-> "created",
                                              is_okta |-> FALSE,
                                              branch |-> "none"]),
                         !.restarts = @ + 1]
    /\ UNCHANGED <<pc, sim, engine, last_step, fast, returned, draws, raised, mc, twin>>

\* action_toggle_pause
SimTogglePause ==
    /\ screen.kind = "simulation" /\ screen.active = 0
    /\ screen.mounted
    /\ screen' = [screen EXCEPT !.paused = ~@]
    /\ UNCHANGED <<pc, sim, engine, last_step, fast, returned, draws, raised, mc, twin>>

\* action_back: running is cleared and the screen is popped
SimBack ==
    /\ screen.kind = "simulation" /\ screen.active = 0
    /\ screen.mounted
    /\ screen' = [screen EXCEPT !.running = FALSE, !.mounted = FALSE]
    /\ UNCHANGED <<pc, sim, engine, last_step, fast, returned, draws, raised, mc, twin>>

NextSim ==
    \/ SimTaskBegin
    \/ SimTaskResume
    \/ SimInstantIteration
    \/ SimInstantEnd
    \/ SimLoop
    \/ SimAttempt
    \/ SimUpdateStats
    \/ SimCheckComplete
    \/ SimExit
    \/ SimRestart
    \/ SimTogglePause
    \/ SimBack

SpecSim == InitSim /\ [][NextSim]_vars

\* C26: in the SimulationScreen, at every point where a task is suspended
\* and in every statistics display, the Hepta sub-progress is below 5 and
\* the Okta sub-progress below 10: the attempt that completes a path and
\* the tier increment with the reset of progress and pity take effect
\* together, with no await and no display update between them
C26_ProgressBelowPathLength ==
    screen.kind = "simulation" =>
        /\ screen.active = 0 =>
              /\ screen.hepta_sub_progress < HEPTA_SUB_ENHANCEMENTS
              /\ screen.okta_sub_progress < OKTA_SUB_ENHANCEMENTS
        /\ screen.hepta_text # <<HEPTA_SUB_ENHANCEMENTS>>
        /\ screen.okta_text # <<OKTA_SUB_ENHANCEMENTS>>

\* C30: in the SimulationScreen no task created before the last
\* action_restart performs an attempt on the state the restart has reset,
\* and no such task, when it ends, clears running under the task the
\* restart has started
C30_OneTaskPerformsAttempts ==
    screen.kind = "simulation" =>
        /\ ~screen.stale_attempt
        /\ ~screen.stale_stop


\* C31: every attempt of simulate_to_target keeps the ledger consistent with
\* the gear: total_attempts = successes + failures; level_drops goes up by
\* one exactly when the attempt ended below its starting tier;
\* restoration_attempts goes up by the recovery success or by the level
\* drop that followed the recovery attempt, so restoration_attempts -
\* restoration_successes counts those drops and is at most level_drops;
\* anvil_triggers <= successes; and the tier of the gear is the starting
\* tier + successes - level_drops
C31_LedgerConsistent ==
    [][sim'.result.total_attempts = sim.result.total_attempts + 1 =>
        LET a == sim'.attempt[1]
            r == sim.result
            r2 == sim'.result
            dropped == a.ending_level < a.starting_level
        IN  /\ r2.total_attempts = r2.successes + r2.failures
            /\ r2.level_drops = r.level_drops + (IF dropped THEN 1 ELSE 0)
            /\ r2.restoration_attempts - r.restoration_attempts =
                   (r2.restoration_successes - r.restoration_successes)
                   + (IF dropped /\ a.restoration_attempted THEN 1 ELSE 0)
            /\ r2.restoration_attempts - r2.restoration_successes <= r2.level_drops
            /\ r2.restoration_attempts >= r2.restoration_successes
            /\ r2.anvil_triggers <= r2.successes
            /\ sim'.gear.awakening_level =
                   sim'.starting_state.awakening_level + r2.successes - r2.level_drops
            /\ a.starting_level = sim.gear.awakening_level
            /\ a.ending_level = sim'.gear.awakening_level]_vars

\* a run with a recovery that kept the tier, a level drop and a pity-forced
\* success behind it
C31_Witness ==
    /\ pc = "simulate_to_target"
    /\ sim.result.total_attempts >= 3
    /\ sim.result.level_drops >= 1
    /\ sim.result.restoration_successes >= 1
    /\ sim.result.successes >= 1

\* C32: in AwakeningEngine, from the empty pity energy of reset(), the energy
\* of a tier t with threshold T > 0 never exceeds T, in step() and during
\* run_fast(): a normal attempt on t fails only with an energy below T and
\* then adds 1 to it, and the attempt made with energy T is forced, succeeds
\* whatever the draw and leaves the energy at 0; so at most T failed attempts
\* on t lie between two successes on t, whatever downgrades happen between.
C32_EnergyWithinThreshold ==
    /\ \A t \in DOMAIN engine.anvil_energy :
          Threshold(t) > 0 => engine.anvil_energy[t] <= Threshold(t)
    /\ (StepIsNormal /\ Threshold(engine.level + 1) > 0) =>
          LET t == engine.level + 1
              e == DictGet(engine.anvil_energy, t, 0)
          IN  \A roll \in Rolls, restoration_roll \in Rolls :
                 LET out == step(engine, roll, restoration_roll)
                 IN  /\ ~out.result.success =>
                           /\ e < Threshold(t)
                           /\ out.self.anvil_energy[t] = e + 1
                     /\ e = Threshold(t) =>
                           /\ out.result.success
                           /\ out.result.anvil_triggered
                           /\ out.self.anvil_energy[t] = 0
    /\ (FastIsNormal /\ Threshold(fast.level + 1) > 0) =>
          LET t == fast.level + 1
              e == DictGet(engine.anvil_energy, t, 0)
          IN  \A roll \in Rolls, restoration_roll \in Rolls :
                 LET out == run_fast_iteration(engine, fast, roll, restoration_roll)
                 IN  /\ out.locals.level # t =>
                           /\ e < Threshold(t)
                           /\ out.self.anvil_energy[t] = e + 1
                     /\ e = Threshold(t) =>
                           /\ out.locals.level = t
                           /\ out.locals.anvil_triggered
                           /\ out.self.anvil_energy[t] = 0

\* C32 witness: run_fast() has filled a tier's energy up to its threshold
\* > 0 and has been downgraded below the tier under it
C32_Witness ==
    /\ pc = "run_fast"
    /\ \E t \in DOMAIN engine.anvil_energy :
          /\ Threshold(t) > 0
          /\ engine.anvil_energy[t] = Threshold(t)
          /\ fast.level < t - 1

\* C33: every step() that is not refused adds exactly 1 to attempts and
\* consumes exactly one of 1 primary crystal (normal attempt) or 15 exquisite
\* crystals (sub-path attempt); so in every state reachable from reset()
\* attempts = crystals + exquisite_crystals / 15, scrolls is a multiple of
\* 200 and scrolls / 200 <= crystals.
C33_AttemptsMatchCrystals ==
    /\ engine.exquisite_crystals % 15 = 0
    /\ engine.attempts = engine.crystals + engine.exquisite_crystals \div 15
    /\ engine.scrolls % 200 = 0
    /\ engine.scrolls \div 200 <= engine.crystals
    /\ (pc = "idle" /\ returned = <<>> /\ ~is_complete(engine)) =>
          \A roll \in Rolls, restoration_roll \in Rolls :
             LET after == step(engine, roll, restoration_roll).self
                 sub   == _should_use_hepta(engine) \/ _should_use_okta(engine)
             IN  /\ after.attempts = engine.attempts + 1
                 /\ after.crystals = engine.crystals + (IF sub THEN 0 ELSE 1)
                 /\ after.exquisite_crystals =
                       engine.exquisite_crystals + (IF sub THEN 15 ELSE 0)
                 /\ after.scrolls \in {engine.scrolls, engine.scrolls + 200}
                 /\ sub => after.scrolls = engine.scrolls

\* C33 witness: normal attempts with recovery and sub-path attempts have both
\* been made by step()
C33_Witness ==
    /\ pc = "idle"
    /\ engine.attempts = MaxAttempts
    /\ engine.crystals >= 2
    /\ engine.exquisite_crystals >= 15
    /\ engine.scrolls >= 200
    /\ engine.scrolls \div 200 < engine.crystals

(***************************************************************************)
(* The Valks choice of AwakeningEngine over every target tier and every    *)
(* combination of the three 'from' values.                                 *)
(***************************************************************************)
\* the largest 'from' value explored
MaxFrom == 10

\* the number of attempts explored per engine and per run_fast call
ValksAttempts == 1

\* one path-free configuration per starting tier and per combination of
\* valks_10_from, valks_50_from, valks_100_from; no recovery
ValksConfigs ==
    {SimulationConfig(s, s + 1, 0, FALSE, FALSE, 0, 0, <<a, b, c>>, Prices) :
        s \in 0..9, a \in 0..MaxFrom, b \in 0..MaxFrom, c \in 0..MaxFrom}

InitValks ==
    /\ pc = "idle"
    /\ sim = IdleSim
    /\ \E config \in ValksConfigs : engine = reset(config)
    /\ last_step = <<>>
    /\ fast = NoLocals
    /\ returned = <<>>
    /\ draws = <<>>
    /\ raised = "None"
    /\ mc = NoMonteCarlo
    /\ screen = NoScreen
    /\ twin = NoTwin

\* engine.step(), not complete
ValksStep ==
    /\ pc = "idle"
    /\ ~is_complete(engine)
    /\ engine.attempts < ValksAttempts
    /\ \E roll \in Rolls, restoration_roll \in Rolls :
          LET out == step(engine, roll, restoration_roll)
          IN  /\ engine' = out.self
              /\ last_step' = <<out.result>>
              /\ draws' = out.draws
    /\ UNCHANGED <<pc, sim, fast, returned, raised, mc, screen, twin>>

\* engine.run_fast() is called: the locals are set up
ValksFastBegin ==
    /\ pc = "idle"
    /\ engine.attempts = 0
    /\ returned = <<>>
    /\ pc' = "run_fast"
    /\ fast' = run_fast_locals(engine)
    /\ draws' = <<>>
    /\ UNCHANGED <<sim, engine, last_step, returned, raised, mc, screen, twin>>

\* one iteration of the while loop of run_fast
ValksFastIteration ==
    /\ pc = "run_fast"
    /\ fast.level < engine.config.target_level
    /\ fast_iterations(fast) < ValksAttempts
    /\ \E roll \in Rolls, restoration_roll \in Rolls :
          LET out == run_fast_iteration(engine, fast, roll, restoration_roll)
          IN  /\ engine' = out.self
              /\ fast' = out.locals
              /\ draws' = out.draws
    /\ UNCHANGED <<pc, sim, last_step, returned, raised, mc, screen, twin>>

\* run_fast leaves its loop and returns its tuple
ValksFastReturn ==
    /\ pc = "run_fast"
    /\ ~(fast.level < engine.config.target_level)
    /\ pc' = "idle"
    /\ returned' = <<fast.crystals, fast.scrolls, fast.silver,
                     fast.exquisite_crystals>>
    /\ fast' = NoLocals
    /\ draws' = <<>>
    /\ UNCHANGED <<sim, engine, last_step, raised, mc, screen, twin>>

NextValks ==
    \/ ValksStep
    \/ ValksFastBegin
    \/ ValksFastIteration
    \/ ValksFastReturn

SpecValks == InitValks /\ [][NextValks]_vars

\* the Valks type the priority rule selects for a target tier: "100", else
\* "50", else "10", each only if its 'from' value is > 0 and <= the target
PriorityChoice(config, t) ==
    IF config.valks_100_from > 0 /\ t >= config.valks_100_from THEN "100"
    ELSE IF config.valks_50_from > 0 /\ t >= config.valks_50_from THEN "50"
    ELSE IF config.valks_10_from > 0 /\ t >= config.valks_10_from THEN "10"
    ELSE "None"

\* the rate and the price that belong to a Valks type
ChoiceRate(v, t) ==
    IF v = "100" THEN _RATE_CACHE_VALKS_100[t]
    ELSE IF v = "50" THEN _RATE_CACHE_VALKS_50[t]
    ELSE IF v = "10" THEN _RATE_CACHE_VALKS_10[t]
    ELSE _RATE_CACHE[t]

ChoicePrice(prices, v) ==
    IF v = "100" THEN prices.valks_100_price
    ELSE IF v = "50" THEN prices.valks_50_price
    ELSE IF v = "10" THEN prices.valks_10_price
    ELSE 0

\* C34: AwakeningEngine selects at most one Valks type per normal attempt, by
\* the priority "100" > "50" > "10", each type needing from > 0 and target >=
\* from (0 disables it); _get_valks_for_level, _perform_enhancement_step and
\* run_fast make the same choice of type, rate and price charged, for every
\* target 1..10 and every combination of the three 'from' values.
C34_ValksChoiceAgrees ==
    LET config == engine.config
        prices == config.prices
    IN  /\ \A t \in 1..10 :
              LET v == PriorityChoice(config, t)
              IN  /\ _get_valks_for_level(engine, t) = v
                  /\ step_valks(engine, t).valks_type = v
                  /\ step_valks(engine, t).base_rate = ChoiceRate(v, t)
                  /\ fast_valks(engine, t).base_rate = ChoiceRate(v, t)
                  /\ fast_valks(engine, t).price = ChoicePrice(prices, v)
        /\ (pc = "idle" /\ ~is_complete(engine)) =>
              LET v == PriorityChoice(config, engine.level + 1)
              IN  \A roll \in Rolls, restoration_roll \in Rolls :
                     LET out == step(engine, roll, restoration_roll)
                     IN  /\ out.result.valks_used = v
                         /\ out.self.silver =
                               engine.silver + prices.crystal_price
                                   + ChoicePrice(prices, v)
                         /\ \A u \in {"10", "50", "100"} :
                               ValksUsed(out.self)[u] =
                                   ValksUsed(engine)[u] + (IF u = v THEN 1 ELSE 0)
        /\ (pc = "run_fast" /\ fast.level < config.target_level) =>
              LET v == PriorityChoice(config, fast.level + 1)
              IN  \A roll \in Rolls, restoration_roll \in Rolls :
                     LET out == run_fast_iteration(engine, fast, roll, restoration_roll)
                     IN  out.locals.silver =
                             fast.silver + prices.crystal_price
                                 + ChoicePrice(prices, v)

\* C34 witness: all three types are configured, "10" and "50" apply to the
\* target and "100" does not; run_fast() and then step() have both used "50"
C34_Witness ==
    /\ pc = "idle"
    /\ engine.config.valks_10_from \in 1..engine.config.target_level
    /\ engine.config.valks_50_from \in 1..engine.config.target_level
    /\ engine.config.valks_100_from > engine.config.target_level
    /\ returned # <<>>
    /\ returned[3] = engine.config.prices.crystal_price
                         + engine.config.prices.valks_50_price
    /\ last_step # <<>>
    /\ last_step[1].valks_used = "50"
    /\ engine.valks_50_used = 1
    /\ engine.silver = returned[3]

\* C35: under the default prices one recovery attempt (200 restoration
\* scrolls) costs the same silver in both models: what a returned simulator
\* run has been charged for its scrolls (scrolls x get_effective_price of a
\* scroll) is what the engine charges for as many recovery attempts
\* (MarketPrices.restoration_attempt_cost each).  Prices carries the default
\* restoration_bundle_price, 1,000,000 units of 1,000,000 silver.
C35_SameRecoveryCharge ==
    pc = "returned" =>
        LET scrolls ==
                DictGet(sim.result.materials_used, "restoration_scroll", 0)
        IN  scrolls * get_effective_price("restoration_scroll") =
                (scrolls \div RESTORATION_PER_ATTEMPT)
                    * restoration_attempt_cost(Prices)

\* C36: run_monte_carlo needs num_simulations >= 1: with 0 it raises an
\* IndexError (a lookup in an empty list) and returns no record, although
\* average gives 0 for empty data; with num_simulations >= 1 it returns a
\* record, and no percentile or 'worst' lookup is out of range.
C36_NeedsOneSimulation ==
    LET n    == mc.num_simulations
        data == mc_attempts(mc.results)
    IN  /\ pc = "run_monte_carlo" =>
              /\ n = 0 => /\ average(data) = [num |-> 0, den |-> 1]
                          /\ ~index_in_range(data, percentile_idx(data, 50))
                          /\ ~index_in_range(data, -1)
              /\ n >= 1 => /\ \A p \in {50, 90, 99} :
                                 percentile_idx(data, p) \in 0..(n - 1)
                           /\ index_in_range(data, -1)
        /\ pc = "raised" =>
              /\ n = 0
              /\ raised = "IndexError"
              /\ mc.stats = <<>>
        /\ pc = "run_monte_carlo_returned" =>
              /\ n >= 1
              /\ raised = "None"
              /\ mc.stats # <<>>
              /\ mc.stats[1].attempts.worst = data[n]
              /\ \A p \in {50, 90, 99} :
                    percentile(data, p) = data[percentile_idx(data, p) + 1]

\* C36 witness: run_monte_carlo was called with num_simulations = 0 and has
\* raised IndexError
C36_Witness ==
    /\ pc = "raised"
    /\ mc.num_simulations = 0
    /\ mc.results = <<>>
    /\ raised = "IndexError"

\* C37: run_fast() changes no engine attribute but the pity-energy map (and
\* the random generator): from its call to its return level, crystals,
\* scrolls, silver, exquisite_crystals, the Valks counters, attempts and the
\* Hepta/Okta progress and pity keep their pre-call values, so is_complete()
\* is still False after a run that reached the target; the pity-energy map
\* keeps what the run left in it until reset() empties it.
C37_RunFastFrame ==
    [][/\ (pc = "run_fast" \/ pc' = "run_fast") =>
             [engine' EXCEPT !.anvil_energy = engine.anvil_energy] = engine
       /\ (pc = "run_fast" /\ pc' = "idle") =>
             /\ engine' = engine
             /\ [engine EXCEPT !.anvil_energy = EmptyDict] = reset(engine.config)
             /\ fast.level >= engine.config.target_level
             /\ engine.config.start_level < engine.config.target_level
                   => ~is_complete(engine')
       /\ (pc = "idle" /\ returned # <<>> /\ engine'.anvil_energy # engine.anvil_energy) =>
             engine' = reset(engine.config)]_vars

\* C37 witness: run_fast() has returned from a run that reached the target
\* after a downgrade and consumed resources; the engine still shows its
\* starting tier, no resources, and the entries the run left in the map
C37_Witness ==
    /\ pc = "idle"
    /\ returned # <<>>
    /\ returned[1] >= 3
    /\ ~is_complete(engine)
    /\ engine.attempts = 0
    /\ engine.crystals = 0
    /\ engine.silver = 0
    /\ Cardinality(DOMAIN engine.anvil_energy) >= 2

=============================================================================
